---- MODULE Spec2Model ----
(***************************************************************************)
(* Allegro music-analysis core: key estimator, chord estimator, fragment   *)
(* matcher and the chord-detector hook, modelled from the TypeScript.      *)
(*                                                                         *)
(* Representation of numbers.  JavaScript numbers are modelled by exact    *)
(* rationals.  A chroma vector is a record [v, den]: the 12 bins are       *)
(* v[i]/den.  A correlation or similarity is kept as the triple            *)
(* [n, p, q] standing for n / sqrt(p*q) (and for 0 when p*q = 0), and is   *)
(* only ever compared, with exact (multi-limb) integer arithmetic.         *)
(* Strings that the code takes apart (chord labels, note names) are        *)
(* sequences of one-character strings: "F#m" is <<"F","#","m">>.           *)
(***************************************************************************)
EXTENDS Integers, Sequences, FiniteSets, TLC

VARIABLES
  kChroma,        \* key estimator: the chroma vector handed to detectKeyFromChroma
  kResult,        \* key estimator: what detectKeyFromChroma returned for kChroma
  cChroma,        \* chord estimator: the chroma vector handed to the detector
  cResult,        \* chord estimator: detectChordWithAlternatives(cChroma)
  cScaled,        \* chord estimator: [a, b, result] for the vector (a/b)*cChroma
  cSingle,        \* chord estimator: detectChordFromChroma(cChroma)
  mChords,        \* fragment matcher: the recent chord labels (the chord buffer)
  mResult,        \* fragment matcher: [key, mode, result] of suggestSongsFromChords
  mCmp,           \* fragment matcher: [a, b, match] of one chordsMatch(a, b) call
  hListening,     \* chord-detector hook: the analyzer is running
  hSampleCount,   \* sampleCountRef.current
  hLastChord,     \* lastChordRef.current (<<>> for null)
  hLastChordTime, \* lastChordTimeRef.current
  hCurrentChord,  \* the currentChord state, as its displayName (<<>> for null)
  hCaptured,      \* the currentChord the running frame callback closed over
  hHistory,       \* the chordHistory state
  hNow,           \* Date.now()
  hRunLabel,      \* observer: the label of the latest detection pass (<<>> for none)
  hRunStart,      \* observer: when the run of passes giving hRunLabel began
  hHeld,          \* observer: labels some run of passes gave for >= minChordDuration
  hAccumulatedChroma, \* accumulatedChromaRef.current, as the set of pitch classes
                      \* at which it is above 0
  hKeyAccumulator,    \* keyAccumulatorRef.current, in the same way
  hKeySampleCount,    \* keySampleCountRef.current
  hAccepted,      \* observer: the label changes accepted since the analyzer
                  \* was started or the hook was reset
  hLog,           \* observer: every entry handed to setChordHistory since the
                  \* history was last emptied, oldest first
  pResult,        \* progression predictor: the inputs and results of two calls of
                  \* predictNextChords, for one root with two qualities
  sCall,          \* match score: [song, detected, counts, result] of one call of
                  \* calculateMatchScore(detected, SONG_DATABASE[song].chords)
  nCall,          \* normalization: [root, suffix, label, once, twice, matchesOnce]
                  \* for one label root + suffix
  fCall,          \* findMatchingSongs: the arguments of one call, its result, the
                  \* result of the same call without a key, and the score of
                  \* every catalogue entry
  simCall,        \* findSimilarSongs: [songId, maxResults, result, scored] of one
                  \* call, scored being the score the loop gives each entry
  aMonitoring,        \* activity detector: the analysis interval is running
  aNow,               \* Date.now()
  aLastActivityTime,  \* lastActivityTimeRef.current
  aLastSilenceTime,   \* lastSilenceTimeRef.current
  aPeakAboveZero,     \* peakVolumeRef.current > 0
  aWasActive,         \* wasActiveRef.current
  aIsActiveRef,       \* isActiveRef.current
  aActivity,          \* the activity state: [isActive, volume, peakAboveZero,
                      \* silenceDuration, activityDuration], volume in thousandths
  aLoudSince,         \* observer: the time of the first of the latest samples in a
                      \* row above the threshold, 0 when the latest was not above
  aQuietSince,        \* observer: the same for samples not above the threshold,
                      \* the start of monitoring counting as the first of them
  gCall           \* findMatchingSongs over a catalogue with one more entry, whose
                  \* chord list is empty: the arguments, the place of the entry,
                  \* the result, and the result over SONG_DATABASE

keyVars == <<kChroma, kResult>>
chordVars == <<cChroma, cResult, cScaled, cSingle>>
matchVars == <<mChords, mResult, mCmp>>
hookVars == <<hListening, hSampleCount, hLastChord, hLastChordTime, hCurrentChord,
              hCaptured, hHistory, hNow, hRunLabel, hRunStart, hHeld,
              hAccumulatedChroma, hKeyAccumulator, hKeySampleCount, hAccepted, hLog>>
predictVars == <<pResult>>
scoreVars == <<sCall>>
normalizeVars == <<nCall>>
findVars == <<fCall>>
catalogueVars == <<gCall>>
similarVars == <<simCall>>
activityVars == <<aMonitoring, aNow, aLastActivityTime, aLastSilenceTime, aPeakAboveZero,
                  aWasActive, aIsActiveRef, aActivity, aLoudSince, aQuietSince>>
vars == <<kChroma, kResult, cChroma, cResult, cScaled, cSingle, mChords, mResult, mCmp,
          hListening, hSampleCount, hLastChord, hLastChordTime, hCurrentChord,
          hCaptured, hHistory, hNow, hRunLabel, hRunStart, hHeld,
          hAccumulatedChroma, hKeyAccumulator, hKeySampleCount, hAccepted, hLog,
          pResult, sCall, nCall, fCall, gCall, simCall,
          aMonitoring, aNow, aLastActivityTime, aLastSilenceTime, aPeakAboveZero,
          aWasActive, aIsActiveRef, aActivity, aLoudSince, aQuietSince>>

\* ---------------------------------------------------------------- bounds
\* numerators and denominators of the scale factor tried on a chroma vector
MaxScale == 3
\* number of audio frames delivered to the chord-detector hook
MaxFrames == 18
\* the history size of the hook whose history is filled, standing for 20
SmallHistorySize == 2
\* frame callbacks delivered to that hook
MaxHistoryFrames == 21
\* its minChordDuration, shorter than the time between two detection passes
ShortChordDuration == 100
\* chords skipped before the window of detected chords begins
MaxOffset == 2
\* longest window of detected chords scored against an entry
MaxPlayed == 10
\* volume samples analysed by the activity detector
MaxSamples == 34
\* longest catalogue progression that is rearranged in every way
MaxShuffled == 6
\* longest chord buffer built by pushing single labels
MaxWindow == 2
\* number of detected keys tried with each chord buffer (roots 0, 5, 10, ...)
MaxKeys == 2
\* largest bin value of the hand-made low-energy chroma vectors
MaxSmall == 2
\* number of roots the hand-made chroma vectors are built on (roots 0, 7, 2, ...)
MaxSmallRoots == 2

\* ------------------------------------------------- exact number helpers
BigBase == 10000

RECURSIVE BigOfNat(_)
BigOfNat(n) == IF n = 0 THEN <<>> ELSE <<n % BigBase>> \o BigOfNat(n \div BigBase)

RECURSIVE BigMulSmall(_, _, _)
BigMulSmall(a, d, carry) ==
  IF a = <<>> THEN BigOfNat(carry)
  ELSE LET t == Head(a) * d + carry
       IN <<t % BigBase>> \o BigMulSmall(Tail(a), d, t \div BigBase)

RECURSIVE BigAdd(_, _, _)
BigAdd(a, b, carry) ==
  IF a = <<>> /\ b = <<>> THEN BigOfNat(carry)
  ELSE LET x == IF a = <<>> THEN 0 ELSE Head(a)
           y == IF b = <<>> THEN 0 ELSE Head(b)
           t == x + y + carry
       IN <<t % BigBase>> \o BigAdd(IF a = <<>> THEN a ELSE Tail(a),
                                    IF b = <<>> THEN b ELSE Tail(b),
                                    t \div BigBase)

RECURSIVE BigNorm(_)
BigNorm(a) ==
  IF a = <<>> THEN a
  ELSE IF a[Len(a)] = 0 THEN BigNorm(SubSeq(a, 1, Len(a) - 1)) ELSE a

RECURSIVE BigMul(_, _)
BigMul(a, b) ==
  IF a = <<>> \/ b = <<>> THEN <<>>
  ELSE BigNorm(BigAdd(BigMulSmall(a, Head(b), 0), <<0>> \o BigMul(a, Tail(b)), 0))

RECURSIVE BigLessFrom(_, _, _)
BigLessFrom(a, b, i) ==
  IF i = 0 THEN FALSE
  ELSE IF a[i] # b[i] THEN a[i] < b[i] ELSE BigLessFrom(a, b, i - 1)

BigLess(a, b) ==
  IF Len(a) # Len(b) THEN Len(a) < Len(b) ELSE BigLessFrom(a, b, Len(a))

Abs(n) == IF n < 0 THEN 0 - n ELSE n

\* the number a value [n, p, q] stands for is n / sqrt(p * q), or 0 when the
\* denominator is 0 (the "=== 0 ? 0 :" guards of the code)
ValSign(x) ==
  IF x.p = 0 \/ x.q = 0 \/ x.n = 0 THEN 0 ELSE IF x.n > 0 THEN 1 ELSE 0 - 1

\* x.n^2 * y.p * y.q : the square of |x| times the squared denominators of both
ValCross(x, y) ==
  BigMul(BigMul(BigOfNat(Abs(x.n)), BigOfNat(Abs(x.n))),
         BigMul(BigOfNat(y.p), BigOfNat(y.q)))

\* x > y
ValGreater(x, y) ==
  LET sx == ValSign(x)
      sy == ValSign(y)
  IN IF sx # sy THEN sx > sy
     ELSE IF sx = 0 THEN FALSE
     ELSE IF sx = 1 THEN BigLess(ValCross(y, x), ValCross(x, y))
     ELSE BigLess(ValCross(x, y), ValCross(y, x))

\* the rational a / b (b > 0) as a value
Rat(a, b) == [n |-> a, p |-> b, q |-> b]

ValGreaterEq(x, y) == ~ValGreater(y, x)

\* ------------------------------------------------------- shared tables
NOTE_NAMES ==
  << <<"C">>, <<"C","#">>, <<"D">>, <<"D","#">>, <<"E">>, <<"F">>,
     <<"F","#">>, <<"G">>, <<"G","#">>, <<"A">>, <<"A","#">>, <<"B">> >>

NULL == [isNull |-> TRUE]

SeqToSet(s) == {s[i] : i \in 1..Len(s)}

RECURSIVE SumSeq(_)
SumSeq(s) == IF s = <<>> THEN 0 ELSE Head(s) + SumSeq(Tail(s))

\* chroma.reduce((a, b) => a + b, 0), as a multiple of 1/den
totalEnergy(chroma) == SumSeq(chroma.v)

\* totalEnergy < num/100, for the silence thresholds 0.01 and 0.05
EnergyBelow(chroma, num) == 100 * totalEnergy(chroma) < num * chroma.den

\* --------------------------------------------------- the key estimator
\* Krumhansl-Schmuckler profiles, in hundredths
MAJOR_PROFILE == <<635, 223, 348, 233, 438, 409, 252, 519, 239, 366, 229, 288>>
MINOR_PROFILE == <<633, 268, 352, 538, 260, 353, 254, 475, 398, 269, 334, 317>>

\* keyDetection's rotateArray: [...arr.slice(normalized), ...arr.slice(0, normalized)]
rotateArrayKey(arr, n) ==
  LET len == Len(arr)
      normalized == ((n % len) + len) % len
  IN SubSeq(arr, normalized + 1, len) \o SubSeq(arr, 1, normalized)

\* chroma.map(c => c / totalEnergy): the bins become v[i] / sum(v)
normalizeChroma(chroma) == [v |-> chroma.v, den |-> totalEnergy(chroma)]

\* Pearson correlation of x and y, given as the numerators of two vectors
\* with a common denominator each (E for the normalized chroma, 100 for a
\* profile).  With dx[i] = 12*x[i] - sum(x) the code's diffX is dx[i]/(12*E),
\* so numerator / sqrt(denomX * denomY) is n / sqrt(p * q): the factors 12,
\* E and 100 cancel between numerator and denominator.
pearsonCorrelation(x, y) ==
  LET n == Len(x)
      sx == SumSeq(x)
      sy == SumSeq(y)
      dx == [i \in 1..n |-> n * x[i] - sx]
      dy == [i \in 1..n |-> n * y[i] - sy]
  IN IF n # Len(y) \/ n = 0 THEN [n |-> 0, p |-> 0, q |-> 0]
     ELSE [n |-> SumSeq([i \in 1..n |-> dx[i] * dy[i]]),
           p |-> SumSeq([i \in 1..n |-> dx[i] * dx[i]]),
           q |-> SumSeq([i \in 1..n |-> dy[i] * dy[i]])]

\* the 24 candidates in the order the two loops visit them
KeyCandidates ==
  [c \in 1..24 |-> IF c <= 12 THEN [key |-> c - 1, mode |-> "major"]
                   ELSE [key |-> c - 13, mode |-> "minor"]]

KeyProfile(mode) == IF mode = "major" THEN MAJOR_PROFILE ELSE MINOR_PROFILE

\* -Infinity, as a best/second-best correlation not yet set
NegInf == [inf |-> TRUE]

CorrGreater(x, y) == IF y = NegInf THEN x # NegInf ELSE x # NegInf /\ ValGreater(x, y)

\* KeyStep with >= in the first test: the last of several equal candidates wins
KeyStep_lastWins(st, cand, correlation) ==
  IF ~CorrGreater(st.bestCorrelation, correlation)
  THEN [bestCorrelation |-> correlation, bestKey |-> cand.key, bestMode |-> cand.mode,
        secondBestCorrelation |-> st.bestCorrelation,
        secondBestKey |-> st.bestKey, secondBestMode |-> st.bestMode]
  ELSE IF CorrGreater(correlation, st.secondBestCorrelation)
  THEN [st EXCEPT !.secondBestCorrelation = correlation,
                  !.secondBestKey = cand.key, !.secondBestMode = cand.mode]
  ELSE st

\* one iteration of either loop: the if / else-if that tracks best and second
KeyStep(st, cand, correlation) ==
  IF CorrGreater(correlation, st.bestCorrelation)
  THEN [bestCorrelation |-> correlation, bestKey |-> cand.key, bestMode |-> cand.mode,
        secondBestCorrelation |-> st.bestCorrelation,
        secondBestKey |-> st.bestKey, secondBestMode |-> st.bestMode]
  ELSE IF CorrGreater(correlation, st.secondBestCorrelation)
  THEN [st EXCEPT !.secondBestCorrelation = correlation,
                  !.secondBestKey = cand.key, !.secondBestMode = cand.mode]
  ELSE st

\* the correlation of the normalized chroma with the profile of candidate c
KeyCorrelation(x, c) ==
  pearsonCorrelation(x, rotateArrayKey(KeyProfile(KeyCandidates[c].mode),
                                       KeyCandidates[c].key))

RECURSIVE KeyLoop(_, _, _)
\* the two loops, from candidate c on (the state is computed before the next
\* iteration starts, as in the code)
KeyLoop(x, st, c) ==
  IF c > 24 THEN st
  ELSE LET next == KeyStep(st, KeyCandidates[c], KeyCorrelation(x, c))
       IN IF next.bestKey \in 0..11 THEN KeyLoop(x, next, c + 1) ELSE next

\* Math.max(0, Math.min(1, (corr + 1) / 2)) > a/b, i.e. >= when strict = FALSE,
\* for 0 <= a/b < 1:  (corr + 1)/2 > a/b  <=>  corr > (2a - b)/b
ConfidenceAbove(corr, a, b, strict) ==
  IF corr = NegInf THEN FALSE
  ELSE IF strict THEN ValGreater(corr, Rat(2 * a - b, b))
  ELSE ValGreaterEq(corr, Rat(2 * a - b, b))

\* detectKeyFromChroma without the silence test
detectKeyFromChroma_noSilence(chroma) ==
  IF Len(chroma.v) # 12 THEN NULL
  ELSE LET st == KeyLoop(normalizeChroma(chroma).v,
                         [bestCorrelation |-> NegInf, bestKey |-> 0, bestMode |-> "major",
                          secondBestCorrelation |-> NegInf, secondBestKey |-> 0,
                          secondBestMode |-> "major"],
                         1)
       IN [key |-> NOTE_NAMES[st.bestKey + 1],
           mode |-> st.bestMode,
           confidence |-> st.bestCorrelation,
           alternateKey |->
             IF ConfidenceAbove(st.secondBestCorrelation, 3, 10, TRUE)
             THEN [key |-> NOTE_NAMES[st.secondBestKey + 1],
                   mode |-> st.secondBestMode,
                   confidence |-> st.secondBestCorrelation]
             ELSE NULL]

detectKeyFromChroma(chroma) ==
  IF Len(chroma.v) # 12 THEN NULL
  ELSE IF EnergyBelow(chroma, 1) THEN NULL
  ELSE LET st == KeyLoop(normalizeChroma(chroma).v,
                         [bestCorrelation |-> NegInf, bestKey |-> 0, bestMode |-> "major",
                          secondBestCorrelation |-> NegInf, secondBestKey |-> 0,
                          secondBestMode |-> "major"],
                         1)
       IN [key |-> NOTE_NAMES[st.bestKey + 1],
           mode |-> st.bestMode,
           confidence |-> st.bestCorrelation,
           alternateKey |->
             IF ConfidenceAbove(st.secondBestCorrelation, 3, 10, TRUE)
             THEN [key |-> NOTE_NAMES[st.secondBestKey + 1],
                   mode |-> st.secondBestMode,
                   confidence |-> st.secondBestCorrelation]
             ELSE NULL]

\* -------------------------------------------------- the chord estimator
\* chord templates, in tenths
CHORD_TEMPLATES ==
  [major |-> <<10, 0, 0, 0, 8, 0, 0, 9, 0, 0, 0, 0>>,
   minor |-> <<10, 0, 0, 8, 0, 0, 0, 9, 0, 0, 0, 0>>,
   dom7  |-> <<10, 0, 0, 0, 7, 0, 0, 8, 0, 0, 6, 0>>,
   maj7  |-> <<10, 0, 0, 0, 7, 0, 0, 8, 0, 0, 0, 6>>,
   min7  |-> <<10, 0, 0, 7, 0, 0, 0, 8, 0, 0, 6, 0>>,
   dim   |-> <<10, 0, 0, 8, 0, 0, 8, 0, 0, 0, 0, 0>>,
   aug   |-> <<10, 0, 0, 0, 8, 0, 0, 0, 8, 0, 0, 0>>,
   sus4  |-> <<10, 0, 0, 0, 0, 8, 0, 9, 0, 0, 0, 0>>,
   sus2  |-> <<10, 0, 8, 0, 0, 0, 0, 9, 0, 0, 0, 0>>]

\* the closed enumeration ChordQuality ("dom7" is the quality the code spells '7')
ChordQuality == <<"major", "minor", "dom7", "maj7", "min7", "dim", "aug", "sus4", "sus2">>

COMMON_QUALITIES == <<"major", "minor", "dom7", "min7", "maj7", "dim", "sus4">>

\* rotateArray with the two slices taken at normalized instead of len - normalized
rotateArray_swapped(arr, n) ==
  LET len == Len(arr)
      normalized == ((n % len) + len) % len
  IN SubSeq(arr, normalized + 1, len) \o SubSeq(arr, 1, normalized)

\* chordDetection's rotateArray:
\* [...arr.slice(len - normalized), ...arr.slice(0, len - normalized)]
rotateArray(arr, n) ==
  LET len == Len(arr)
      normalized == ((n % len) + len) % len
  IN SubSeq(arr, len - normalized + 1, len) \o SubSeq(arr, 1, len - normalized)

\* dot / (sqrt(magA) * sqrt(magB)) as the value [n, p, q]; a and b are the
\* numerators of two vectors with a common denominator each, which cancels
dotProductSimilarity(a, b) ==
  IF Len(a) # Len(b) THEN [n |-> 0, p |-> 0, q |-> 0]
  ELSE [n |-> SumSeq([i \in 1..Len(a) |-> a[i] * b[i]]),
        p |-> SumSeq([i \in 1..Len(a) |-> a[i] * a[i]]),
        q |-> SumSeq([i \in 1..Len(a) |-> b[i] * b[i]])]

qualitySuffix ==
  [major |-> <<>>, minor |-> <<"m">>, dom7 |-> <<"7">>, maj7 |-> <<"m","a","j","7">>,
   min7 |-> <<"m","7">>, dim |-> <<"d","i","m">>, aug |-> <<"a","u","g">>,
   sus4 |-> <<"s","u","s","4">>, sus2 |-> <<"s","u","s","2">>]

formatChordName(root, quality) == root \o qualitySuffix[quality]

\* the inner loop stopping one quality early
ChordCandidateAt_shortLoop(qualities, c) ==
  [rootIndex |-> (c - 1) \div Len(qualities),
   quality |-> qualities[((c - 1) % (Len(qualities) - 1)) + 1]]

\* the (root, quality) pairs in the order the nested loops visit them
ChordCandidateAt(qualities, c) ==
  [rootIndex |-> (c - 1) \div Len(qualities),
   quality |-> qualities[((c - 1) % Len(qualities)) + 1]]

\* the body of the nested loops for candidate c: its score and its record
ChordScored(x, qualities, c) ==
  LET cand == ChordCandidateAt(qualities, c)
  IN [root |-> NOTE_NAMES[cand.rootIndex + 1],
      quality |-> cand.quality,
      confidence |-> dotProductSimilarity(
                       x, rotateArray(CHORD_TEMPLATES[cand.quality], cand.rootIndex)),
      displayName |-> formatChordName(NOTE_NAMES[cand.rootIndex + 1], cand.quality)]

\* the nested loops of detectChordWithAlternatives: in visiting order, the
\* candidates with score > 0.4 (candidates.push)
ChordLoop(x, qualities) ==
  SelectSeq([c \in 1..(12 * Len(qualities)) |-> ChordScored(x, qualities, c)],
            LAMBDA cand : ValGreater(cand.confidence, Rat(4, 10)))

RECURSIVE InsertByConfidence(_, _)
\* put x behind every element whose confidence is not smaller (stable)
InsertByConfidence(sorted, x) ==
  IF sorted = <<>> THEN <<x>>
  ELSE IF ValGreater(x.confidence, Head(sorted).confidence) THEN <<x>> \o sorted
  ELSE <<Head(sorted)>> \o InsertByConfidence(Tail(sorted), x)

\* the candidates left in the order the loops pushed them
SortByConfidence_unsorted(todo, sorted) == todo

RECURSIVE SortByConfidence(_, _)
\* candidates.sort((a, b) => b.confidence - a.confidence), a stable sort
SortByConfidence(todo, sorted) ==
  IF todo = <<>> THEN sorted
  ELSE SortByConfidence(Tail(todo), InsertByConfidence(sorted, Head(todo)))

\* slice that cuts nothing off
Slice_whole(arr, from, to) == arr

\* arr.slice(from, to) with 0-based from (inclusive) and to (exclusive)
Slice(arr, from, to) ==
  LET t == IF to > Len(arr) THEN Len(arr) ELSE to
  IN IF from >= t THEN <<>> ELSE SubSeq(arr, from + 1, t)

\* detectChordWithAlternatives with the silence threshold 0.5 for 0.05
detectChordWithAlternatives_threshold(chroma) ==
  IF Len(chroma.v) # 12 THEN [chord |-> NULL, alternatives |-> <<>>]
  ELSE IF EnergyBelow(chroma, 50) THEN [chord |-> NULL, alternatives |-> <<>>]
  ELSE LET candidates ==
             SortByConfidence(
               ChordLoop(normalizeChroma(chroma).v, COMMON_QUALITIES), <<>>)
       IN [chord |-> IF candidates = <<>> THEN NULL ELSE candidates[1],
           alternatives |-> Slice(candidates, 1, 4)]

detectChordWithAlternatives(chroma) ==
  IF Len(chroma.v) # 12 THEN [chord |-> NULL, alternatives |-> <<>>]
  ELSE IF EnergyBelow(chroma, 5) THEN [chord |-> NULL, alternatives |-> <<>>]
  ELSE LET candidates ==
             SortByConfidence(
               ChordLoop(normalizeChroma(chroma).v, COMMON_QUALITIES), <<>>)
       IN [chord |-> IF candidates = <<>> THEN NULL ELSE candidates[1],
           alternatives |-> Slice(candidates, 1, 4)]

\* the body of the nested loops with >= for the second test: the last of
\* several equal candidates wins
FromChromaStep_lastWins(st, chord) ==
  IF ValGreater(chord.confidence, Rat(5, 10))
  THEN IF ~ValGreater(st.bestScore, chord.confidence)
       THEN [bestScore |-> chord.confidence, bestMatch |-> chord]
       ELSE st
  ELSE st

\* the body of the nested loops of detectChordFromChroma for one candidate:
\* if (score > 0.5) { if (score > bestScore) { bestScore, bestMatch = ... } };
\* the alternatives it pushes are never read
FromChromaStep(st, chord) ==
  IF ValGreater(chord.confidence, Rat(5, 10))
  THEN IF ValGreater(chord.confidence, st.bestScore)
       THEN [bestScore |-> chord.confidence, bestMatch |-> chord]
       ELSE st
  ELSE st

RECURSIVE FromChromaQualities(_, _, _, _)
\* the inner loop for one root: bestScore and bestMatch after the first q
\* qualities, st being the state the loop starts from; prev ranges over the
\* one state before quality q
FromChromaQualities(x, st, rootIndex, q) ==
  IF q = 0 THEN st
  ELSE CHOOSE next \in
         {FromChromaStep(prev, ChordScored(x, COMMON_QUALITIES,
                                           rootIndex * Len(COMMON_QUALITIES) + q)) :
            prev \in {FromChromaQualities(x, st, rootIndex, q - 1)}} : TRUE

RECURSIVE FromChromaLoop(_, _)
\* the outer loop: bestScore and bestMatch after the roots 0..(roots - 1)
FromChromaLoop(x, roots) ==
  IF roots = 0 THEN [bestScore |-> Rat(0, 1), bestMatch |-> NULL]
  ELSE CHOOSE st \in
         {FromChromaQualities(x, prev, roots - 1, Len(COMMON_QUALITIES)) :
            prev \in {FromChromaLoop(x, roots - 1)}} : TRUE

detectChordFromChroma(chroma) ==
  IF Len(chroma.v) # 12 THEN NULL
  ELSE IF EnergyBelow(chroma, 5) THEN NULL
  ELSE FromChromaLoop(normalizeChroma(chroma).v, 12).bestMatch

\* ------------------------------------------------- the fragment matcher
\* the catalogue: id, difficulty, chords, key and mode of every entry, in
\* file order (title, artist, tempo, tags and funFact play no part in matching)
SONG_DATABASE ==
  <<
    [id |-> "twinkle-twinkle", difficulty |-> "beginner", key |-> <<"C">>, mode |-> "major",
     chords |-> << <<"C">>, <<"F">>, <<"C">>, <<"G">>, <<"C">>, <<"F">>, <<"C">>, <<"G">>, <<"C">> >>],
    [id |-> "mary-had-a-little-lamb", difficulty |-> "beginner", key |-> <<"C">>, mode |-> "major",
     chords |-> << <<"C">>, <<"G">>, <<"C">> >>],
    [id |-> "hot-cross-buns", difficulty |-> "beginner", key |-> <<"C">>, mode |-> "major",
     chords |-> << <<"C">>, <<"G">>, <<"C">> >>],
    [id |-> "happy-birthday", difficulty |-> "beginner", key |-> <<"C">>, mode |-> "major",
     chords |-> << <<"C">>, <<"G">>, <<"C">>, <<"F">>, <<"C">>, <<"G">>, <<"C">> >>],
    [id |-> "jingle-bells", difficulty |-> "beginner", key |-> <<"C">>, mode |-> "major",
     chords |-> << <<"C">>, <<"F">>, <<"C">>, <<"G">>, <<"C">> >>],
    [id |-> "old-macdonald", difficulty |-> "beginner", key |-> <<"G">>, mode |-> "major",
     chords |-> << <<"G">>, <<"C">>, <<"G">>, <<"D">>, <<"G">> >>],
    [id |-> "london-bridge", difficulty |-> "beginner", key |-> <<"C">>, mode |-> "major",
     chords |-> << <<"C">>, <<"G">>, <<"C">> >>],
    [id |-> "let-it-be", difficulty |-> "easy", key |-> <<"C">>, mode |-> "major",
     chords |-> << <<"C">>, <<"G">>, <<"A","m">>, <<"F">>, <<"C">>, <<"G">>, <<"F">>, <<"C">> >>],
    [id |-> "imagine", difficulty |-> "easy", key |-> <<"C">>, mode |-> "major",
     chords |-> << <<"C">>, <<"F">>, <<"C">>, <<"F">>, <<"A","m">>, <<"D","m">>, <<"G">>, <<"C">> >>],
    [id |-> "hey-jude", difficulty |-> "easy", key |-> <<"C">>, mode |-> "major",
     chords |-> << <<"C">>, <<"G">>, <<"G">>, <<"C">>, <<"F">>, <<"C">>, <<"G">>, <<"C">> >>],
    [id |-> "stand-by-me", difficulty |-> "easy", key |-> <<"C">>, mode |-> "major",
     chords |-> << <<"C">>, <<"A","m">>, <<"F">>, <<"G">>, <<"C">> >>],
    [id |-> "house-of-the-rising-sun", difficulty |-> "easy", key |-> <<"A">>, mode |-> "minor",
     chords |-> << <<"A","m">>, <<"C">>, <<"D">>, <<"F">>, <<"A","m">>, <<"C">>, <<"E">>, <<"A","m">> >>],
    [id |-> "love-me-do", difficulty |-> "easy", key |-> <<"G">>, mode |-> "major",
     chords |-> << <<"G">>, <<"C">>, <<"G">>, <<"C">>, <<"G">>, <<"D">>, <<"C">>, <<"G">> >>],
    [id |-> "knockin-on-heavens-door", difficulty |-> "easy", key |-> <<"G">>, mode |-> "major",
     chords |-> << <<"G">>, <<"D">>, <<"A","m">>, <<"G">>, <<"D">>, <<"C">> >>],
    [id |-> "wonderwall", difficulty |-> "easy", key |-> <<"E">>, mode |-> "minor",
     chords |-> << <<"E","m">>, <<"G">>, <<"D">>, <<"A">> >>],
    [id |-> "hallelujah", difficulty |-> "easy", key |-> <<"C">>, mode |-> "major",
     chords |-> << <<"C">>, <<"A","m">>, <<"C">>, <<"A","m">>, <<"F">>, <<"G">>, <<"C">>, <<"G">> >>],
    [id |-> "fur-elise", difficulty |-> "intermediate", key |-> <<"A">>, mode |-> "minor",
     chords |-> << <<"A","m">>, <<"E">>, <<"A","m">>, <<"C">>, <<"G">>, <<"A","m">>, <<"E">>, <<"A","m">> >>],
    [id |-> "canon-in-d", difficulty |-> "intermediate", key |-> <<"D">>, mode |-> "major",
     chords |-> << <<"D">>, <<"A">>, <<"B","m">>, <<"F","#","m">>, <<"G">>, <<"D">>, <<"G">>, <<"A">> >>],
    [id |-> "ode-to-joy", difficulty |-> "beginner", key |-> <<"C">>, mode |-> "major",
     chords |-> << <<"C">>, <<"G">>, <<"C">>, <<"G">>, <<"C">> >>],
    [id |-> "let-it-go", difficulty |-> "intermediate", key |-> <<"A">>, mode |-> "minor",
     chords |-> << <<"A","m">>, <<"F">>, <<"G">>, <<"C">>, <<"A","m">>, <<"F">>, <<"G">>, <<"E","m">> >>],
    [id |-> "shallow", difficulty |-> "intermediate", key |-> <<"G">>, mode |-> "major",
     chords |-> << <<"E","m">>, <<"D">>, <<"G">>, <<"C">>, <<"E","m">>, <<"D">>, <<"A","m">> >>],
    [id |-> "a-thousand-years", difficulty |-> "easy", key |-> <<"C">>, mode |-> "major",
     chords |-> << <<"C">>, <<"G">>, <<"E","m">>, <<"D">> >>],
    [id |-> "counting-stars", difficulty |-> "easy", key |-> <<"A">>, mode |-> "minor",
     chords |-> << <<"A","m">>, <<"C">>, <<"G">>, <<"F">> >>],
    [id |-> "someone-like-you", difficulty |-> "easy", key |-> <<"A">>, mode |-> "major",
     chords |-> << <<"A">>, <<"E">>, <<"F","#","m">>, <<"D">> >>],
    [id |-> "horse-with-no-name", difficulty |-> "beginner", key |-> <<"E">>, mode |-> "minor",
     chords |-> << <<"E","m">>, <<"D">> >>],
    [id |-> "leaving-on-a-jet-plane", difficulty |-> "easy", key |-> <<"G">>, mode |-> "major",
     chords |-> << <<"G">>, <<"C">>, <<"G">>, <<"C">>, <<"G">>, <<"D">> >>],
    [id |-> "country-roads", difficulty |-> "easy", key |-> <<"G">>, mode |-> "major",
     chords |-> << <<"G">>, <<"E","m">>, <<"D">>, <<"C">>, <<"G">> >>],
    [id |-> "wagon-wheel", difficulty |-> "easy", key |-> <<"G">>, mode |-> "major",
     chords |-> << <<"G">>, <<"D">>, <<"E","m">>, <<"C">> >>]
  >>

\* ---- the string operations the matcher uses, on sequences of characters
StartsWith(s, p) == Len(s) >= Len(p) /\ SubSeq(s, 1, Len(p)) = p

EndsWith(s, p) == Len(s) >= Len(p) /\ SubSeq(s, Len(s) - Len(p) + 1, Len(s)) = p

\* 1-based position of the first occurrence of p in s, 0 when there is none
IndexOf(s, p) ==
  LET hits == {i \in 1..(Len(s) - Len(p) + 1) : SubSeq(s, i, i + Len(p) - 1) = p}
  IN IF hits = {} THEN 0 ELSE CHOOSE i \in hits : \A j \in hits : i <= j

\* s.replace(from, to) with a string pattern: the first occurrence only
ReplaceFirst(s, from, to) ==
  LET i == IndexOf(s, from)
  IN IF i = 0 THEN s ELSE SubSeq(s, 1, i - 1) \o to \o SubSeq(s, i + Len(from), Len(s))

\* s.replace(/suffix$/, to)
ReplaceSuffix(s, suffix, to) ==
  IF EndsWith(s, suffix) THEN SubSeq(s, 1, Len(s) - Len(suffix)) \o to ELSE s

RECURSIVE TrimStart(_)
TrimStart(s) == IF s # <<>> /\ Head(s) = " " THEN TrimStart(Tail(s)) ELSE s

RECURSIVE TrimEnd(_)
TrimEnd(s) ==
  IF s # <<>> /\ s[Len(s)] = " " THEN TrimEnd(SubSeq(s, 1, Len(s) - 1)) ELSE s

\* chord.trim()
Trim(s) == TrimEnd(TrimStart(s))

enharmonicMap ==
  << [flat |-> <<"D","b">>, sharp |-> <<"C","#">>],
     [flat |-> <<"E","b">>, sharp |-> <<"D","#">>],
     [flat |-> <<"G","b">>, sharp |-> <<"F","#">>],
     [flat |-> <<"A","b">>, sharp |-> <<"G","#">>],
     [flat |-> <<"B","b">>, sharp |-> <<"A","#">>] >>

RECURSIVE EnharmonicLoop(_, _)
\* for (const [flat, sharp] of Object.entries(enharmonicMap)), from entry i on
EnharmonicLoop(normalized, i) ==
  IF i > Len(enharmonicMap) THEN normalized
  ELSE EnharmonicLoop(
         IF StartsWith(normalized, enharmonicMap[i].flat)
         THEN ReplaceFirst(normalized, enharmonicMap[i].flat, enharmonicMap[i].sharp)
         ELSE normalized,
         i + 1)

\* the chain of suffix replacements, in the order the code applies them
SimplifyExtensions(s) ==
  LET r1 == ReplaceSuffix(s, <<"m","a","j","7">>, <<>>)
      r2 == ReplaceSuffix(r1, <<"7">>, <<>>)
      r3 == ReplaceSuffix(r2, <<"m","7">>, <<"m">>)
      r4 == ReplaceSuffix(r3, <<"d","i","m","7">>, <<"d","i","m">>)
  IN IF EndsWith(r4, <<"s","u","s","2">>) \/ EndsWith(r4, <<"s","u","s","4">>)
     THEN SubSeq(r4, 1, Len(r4) - 4)
     ELSE r4

\* normalizeChord without the flat-to-sharp step
normalizeChord_keepFlats(chord) == SimplifyExtensions(Trim(chord))

normalizeChord(chord) == SimplifyExtensions(EnharmonicLoop(Trim(chord), 1))

relativePairs ==
  << << <<"C">>, <<"A","m">> >>, << <<"G">>, <<"E","m">> >>, << <<"D">>, <<"B","m">> >>,
     << <<"A">>, <<"F","#","m">> >>, << <<"E">>, <<"C","#","m">> >>,
     << <<"F">>, <<"D","m">> >>, << <<"B","b">>, <<"G","m">> >> >>

\* chordsMatch without the relative major/minor pairs
chordsMatch_exactOnly(a, b) == normalizeChord(a) = normalizeChord(b)

chordsMatch(a, b) ==
  LET normA == normalizeChord(a)
      normB == normalizeChord(b)
  IN \/ normA = normB
     \/ \E i \in 1..Len(relativePairs) :
          \/ normA = relativePairs[i][1] /\ normB = relativePairs[i][2]
          \/ normA = relativePairs[i][2] /\ normB = relativePairs[i][1]

MaxOf(S) == CHOOSE x \in S : \A y \in S : y <= x

\* a score is the rational num/den, den > 0
ScoreAtLeast(score, a, b) == score.num * b >= a * score.den
ScoreGreater(x, y) == x.num * y.den > y.num * x.den

NormalizeAll(chords) == [j \in 1..Len(chords) |-> normalizeChord(chords[j])]

\* the counts with the overlap taken against the first detected chord only
MatchCounts_firstChordOnly(detected, song) ==
  LET matchCount(i) ==
        Cardinality({j \in 1..Len(detected) : chordsMatch(detected[j], song[i + j])})
      uniqueSongChords == SeqToSet(song)
      chordOverlap ==
        Cardinality({sc \in uniqueSongChords : chordsMatch(detected[1], sc)})
  IN << MaxOf({0} \cup {matchCount(i) : i \in 0..(Len(song) - Len(detected))}),
        chordOverlap, Len(detected), Cardinality(uniqueSongChords) >>

\* the counts with a window longer than the entry compared around its end
MatchCounts_wrapping(detected, song) ==
  LET matchCount(i) ==
        Cardinality({j \in 1..Len(detected) :
                       chordsMatch(detected[j], song[((i + j - 1) % Len(song)) + 1])})
      uniqueSongChords == SeqToSet(song)
      uniqueDetectedChords == SeqToSet(detected)
      chordOverlap ==
        Cardinality({sc \in uniqueSongChords :
                       \E dc \in uniqueDetectedChords : chordsMatch(dc, sc)})
  IN << MaxOf({matchCount(i) : i \in 0..MaxOf({0, Len(song) - Len(detected)})}),
        chordOverlap, Len(detected), Cardinality(uniqueSongChords) >>

\* what calculateMatchScore counts once both progressions are normalized:
\* <<bestMatchCount, chordOverlap, detected.length, uniqueSongChords.length>>
MatchCounts(detected, song) ==
  LET \* matchCount of the window at (0-based) offset i
      matchCount(i) ==
        Cardinality({j \in 1..Len(detected) : chordsMatch(detected[j], song[i + j])})
      uniqueSongChords == SeqToSet(song)
      uniqueDetectedChords == SeqToSet(detected)
      chordOverlap ==
        Cardinality({sc \in uniqueSongChords :
                       \E dc \in uniqueDetectedChords : chordsMatch(dc, sc)})
  IN << MaxOf({0} \cup {matchCount(i) : i \in 0..(Len(song) - Len(detected))}),
        chordOverlap, Len(detected), Cardinality(uniqueSongChords) >>

\* the body with the sequence and the overlap weighted alike
ScoreNormalized_equalWeights(detected, song) ==
  CHOOSE result \in
    {[score |-> IF 5 * c[1] * c[4] + 5 * c[2] * c[3] > 10 * c[3] * c[4]
                THEN [num |-> 1, den |-> 1]
                ELSE [num |-> 5 * c[1] * c[4] + 5 * c[2] * c[3],
                      den |-> 10 * c[3] * c[4]],
      matchedCount |-> c[1]] : c \in {MatchCounts(detected, song)}} : TRUE

\* the body of calculateMatchScore once both progressions are normalized
ScoreNormalized(detected, song) ==
  \* sequenceScore * 0.7 + overlapScore * 0.3, then Math.min(1, finalScore);
  \* c ranges over the one value of the counts
  CHOOSE result \in
    {[score |-> IF 7 * c[1] * c[4] + 3 * c[2] * c[3] > 10 * c[3] * c[4]
                THEN [num |-> 1, den |-> 1]
                ELSE [num |-> 7 * c[1] * c[4] + 3 * c[2] * c[3],
                      den |-> 10 * c[3] * c[4]],
      matchedCount |-> c[1]] : c \in {MatchCounts(detected, song)}} : TRUE

calculateMatchScore(detectedChords, songChords) ==
  IF Len(detectedChords) = 0 \/ Len(songChords) = 0
  THEN [score |-> [num |-> 0, den |-> 1], matchedCount |-> 0]
  ELSE CHOOSE result \in
         {ScoreNormalized(norm[1], norm[2]) :
            norm \in {<<NormalizeAll(detectedChords), NormalizeAll(songChords)>>}} : TRUE

\* keyMatches as a filter: an entry in another key or mode is passed over
keyMatches_strict(detectedKey, detectedMode, song) ==
  IF detectedKey = <<>> THEN TRUE
  ELSE LET normalizedDetected == ReplaceFirst(ReplaceFirst(detectedKey, <<"#">>, <<>>),
                                              <<"b">>, <<>>)
           normalizedSong == ReplaceFirst(ReplaceFirst(song.key, <<"#">>, <<>>),
                                          <<"b">>, <<>>)
       IN /\ normalizedDetected = normalizedSong
          /\ (detectedMode = "" \/ detectedMode = song.mode)

\* keyMatches returns true on every path
keyMatches(detectedKey, detectedMode, song) ==
  IF detectedKey = <<>> THEN TRUE
  ELSE LET normalizedDetected == ReplaceFirst(ReplaceFirst(detectedKey, <<"#">>, <<>>),
                                              <<"b">>, <<>>)
           normalizedSong == ReplaceFirst(ReplaceFirst(song.key, <<"#">>, <<>>),
                                          <<"b">>, <<>>)
       IN IF normalizedDetected = normalizedSong
             /\ (detectedMode = "" \/ detectedMode = song.mode)
          THEN TRUE
          ELSE TRUE

\* const { minScore = 0.3, maxResults = 5, difficulty } = options || {}
DefaultOptions == [minScore |-> [num |-> 3, den |-> 10], maxResults |-> 5, difficulty |-> ""]

\* the SongMatch with the high tier starting at a score of 0.8
MatchFor_highAtEight(song, detectedChords) ==
  CHOOSE match \in
    {[song |-> song,
      score |-> r.score,
      matchedChords |-> r.matchedCount,
      totalChords |-> Len(song.chords),
      confidence |-> IF ScoreAtLeast(r.score, 8, 10) THEN "high"
                     ELSE IF ScoreAtLeast(r.score, 5, 10) THEN "medium" ELSE "low",
      reason |-> IF ScoreAtLeast(r.score, 8, 10) THEN "Strong chord progression match"
                 ELSE IF ScoreAtLeast(r.score, 5, 10) THEN "Good chord overlap"
                 ELSE "Partial match - similar chords detected"] :
       r \in {calculateMatchScore(detectedChords, song.chords)}} : TRUE

\* the body of the loop over SONG_DATABASE for one song: the SongMatch it
\* would push (reason is kept as the branch that produced it)
MatchFor(song, detectedChords) ==
  CHOOSE match \in
    {[song |-> song,
      score |-> r.score,
      matchedChords |-> r.matchedCount,
      totalChords |-> Len(song.chords),
      confidence |-> IF ScoreAtLeast(r.score, 7, 10) THEN "high"
                     ELSE IF ScoreAtLeast(r.score, 5, 10) THEN "medium" ELSE "low",
      reason |-> IF ScoreAtLeast(r.score, 7, 10) THEN "Strong chord progression match"
                 ELSE IF ScoreAtLeast(r.score, 5, 10) THEN "Good chord overlap"
                 ELSE "Partial match - similar chords detected"] :
       r \in {calculateMatchScore(detectedChords, song.chords)}} : TRUE

\* the matches left in the order the loop pushed them
SortByScore_unsorted(matches) == matches

\* matches.sort((a, b) => b.score - a.score): a stable sort, so the element
\* at index i lands after every element with a greater score and after every
\* earlier element with an equal score
SortByScore(matches) ==
  LET before(i) ==
        Cardinality({j \in 1..Len(matches) :
                       \/ ScoreGreater(matches[j].score, matches[i].score)
                       \/ /\ j < i
                          /\ ~ScoreGreater(matches[i].score, matches[j].score)})
  IN [k \in 1..Len(matches) |->
        matches[CHOOSE i \in 1..Len(matches) : before(i) = k - 1]]

\* the loop `for (const song of SONG_DATABASE)` over a catalogue: the matches
\* pushed, in catalogue order
MatchesPushedIn(catalogue, detectedChords, detectedKey, detectedMode, options) ==
  LET considered ==
        SelectSeq(catalogue,
                  LAMBDA song :
                    /\ ~(options.difficulty # "" /\ song.difficulty # options.difficulty)
                    /\ keyMatches(detectedKey, detectedMode, song))
  IN SelectSeq([i \in 1..Len(considered) |-> MatchFor(considered[i], detectedChords)],
               LAMBDA m : ScoreAtLeast(m.score, options.minScore.num,
                                       options.minScore.den))

\* the loop over SONG_DATABASE: the matches pushed, in catalogue order
MatchesPushed(detectedChords, detectedKey, detectedMode, options) ==
  MatchesPushedIn(SONG_DATABASE, detectedChords, detectedKey, detectedMode, options)

\* findMatchingSongs that already matches on a single chord
findMatchingSongs_oneChord(detectedChords, detectedKey, detectedMode, options) ==
  IF Len(detectedChords) < 1 THEN <<>>
  ELSE CHOOSE result \in
         {Slice(SortByScore(matches), 0, options.maxResults) :
            matches \in {MatchesPushed(detectedChords, detectedKey, detectedMode,
                                       options)}} : TRUE

findMatchingSongs(detectedChords, detectedKey, detectedMode, options) ==
  IF Len(detectedChords) < 2 THEN <<>>
  ELSE CHOOSE result \in
         {Slice(SortByScore(matches), 0, options.maxResults) :
            matches \in {MatchesPushed(detectedChords, detectedKey, detectedMode,
                                       options)}} : TRUE

\* findMatchingSongs with the catalogue it loops over as an argument
findMatchingSongsIn(catalogue, detectedChords, detectedKey, detectedMode, options) ==
  IF Len(detectedChords) < 2 THEN <<>>
  ELSE CHOOSE result \in
         {Slice(SortByScore(matches), 0, options.maxResults) :
            matches \in {MatchesPushedIn(catalogue, detectedChords, detectedKey,
                                         detectedMode, options)}} : TRUE

\* findSongsByKey with the default options; the sort on the three-valued
\* difficulty order is stable, so it lists the beginner entries, then the easy
\* ones, then the intermediate ones, each group in catalogue order
findSongsByKey(key, mode) ==
  LET songs == SelectSeq(SONG_DATABASE,
                         LAMBDA song : /\ normalizeChord(song.key) = normalizeChord(key)
                                       /\ song.mode = mode)
      tier(d) == SelectSeq(songs, LAMBDA song : song.difficulty = d)
  IN Slice(tier("beginner") \o tier("easy") \o tier("intermediate"), 0, 5)

suggestSongsFromChords(detectedChords, detectedKey, detectedMode) ==
  CHOOSE result \in
    {IF Len(matches) > 0 /\ matches[1].confidence = "high"
     THEN [matches |-> matches, suggestions |-> <<>>, message |-> "This sounds like"]
     ELSE IF Len(matches) > 0
     THEN [matches |-> matches, suggestions |-> <<>>,
           message |-> "Could be one of these songs..."]
     ELSE IF detectedKey # <<>> /\ detectedMode # ""
     THEN [matches |-> <<>>,
           suggestions |-> findSongsByKey(detectedKey, detectedMode),
           message |-> "Playing in"]
     ELSE [matches |-> <<>>,
           suggestions |->
             Slice(SelectSeq(SONG_DATABASE, LAMBDA s : s.difficulty = "beginner"), 0, 5),
           message |-> "Keep playing!"] :
       matches \in {findMatchingSongs(detectedChords, detectedKey, detectedMode,
                                      DefaultOptions)}} : TRUE

\* score + keyBonus + modeBonus of one entry against the target song
SimilarityScore(targetSong, song) ==
  CHOOSE total \in
    {[num |-> 100 * r.num
                + ((IF song.key = targetSong.key THEN 10 ELSE 0)
                   + (IF song.mode = targetSong.mode THEN 5 ELSE 0)) * r.den,
      den |-> 100 * r.den] :
       r \in {calculateMatchScore(targetSong.chords, song.chords).score}} : TRUE

\* the loop of findSimilarSongs: the entries pushed, in catalogue order
SimilaritiesPushed(targetSong, songId) ==
  LET others == SelectSeq(SONG_DATABASE, LAMBDA song : song.id # songId)
  IN [i \in 1..Len(others) |->
        [song |-> others[i], score |-> SimilarityScore(targetSong, others[i])]]

\* findSimilarSongs that does not pass over the queried song
findSimilarSongs_withItself(songId, maxResults) ==
  IF ~\E i \in 1..Len(SONG_DATABASE) : SONG_DATABASE[i].id = songId THEN <<>>
  ELSE CHOOSE result \in
         {[k \in 1..Len(sorted) |-> sorted[k].song] :
            sorted \in
              {Slice(SortByScore(SimilaritiesPushed(targetSong, "")), 0, maxResults) :
                 targetSong \in
                   {SONG_DATABASE[CHOOSE i \in 1..Len(SONG_DATABASE) :
                                    /\ SONG_DATABASE[i].id = songId
                                    /\ \A j \in 1..(i - 1) :
                                         SONG_DATABASE[j].id # songId]}}} : TRUE

findSimilarSongs(songId, maxResults) ==
  IF ~\E i \in 1..Len(SONG_DATABASE) : SONG_DATABASE[i].id = songId THEN <<>>
  ELSE CHOOSE result \in
         {[k \in 1..Len(sorted) |-> sorted[k].song] :
            sorted \in
              {Slice(SortByScore(SimilaritiesPushed(targetSong, songId)), 0, maxResults) :
                 targetSong \in
                   {SONG_DATABASE[CHOOSE i \in 1..Len(SONG_DATABASE) :
                                    /\ SONG_DATABASE[i].id = songId
                                    /\ \A j \in 1..(i - 1) :
                                         SONG_DATABASE[j].id # songId]}}} : TRUE

\* ---------------------------------------------- the progression predictor
COMMON_PROGRESSIONS ==
  [major |-> << <<"I", "IV", "V", "I">>,
                <<"I", "V", "vi", "IV">>,
                <<"I", "vi", "IV", "V">>,
                <<"ii", "V", "I">>,
                <<"I", "IV", "I", "V">> >>,
   minor |-> << <<"i", "iv", "V", "i">>,
                <<"i", "VI", "III", "VII">>,
                <<"i", "iv", "VII", "III">> >>]

majorScale == <<0, 2, 4, 5, 7, 9, 11>>
minorScale == <<0, 2, 3, 5, 7, 8, 10>>

\* the entries of numeralMap with a plain key
numeralMap ==
  [n \in {"I", "ii", "iii", "IV", "V", "vi", "i", "iv", "III", "VI", "VII"} |->
     CASE n = "I" -> [degree |-> 0, quality |-> <<>>]
       [] n = "ii" -> [degree |-> 1, quality |-> <<"m">>]
       [] n = "iii" -> [degree |-> 2, quality |-> <<"m">>]
       [] n = "IV" -> [degree |-> 3, quality |-> <<>>]
       [] n = "V" -> [degree |-> 4, quality |-> <<>>]
       [] n = "vi" -> [degree |-> 5, quality |-> <<"m">>]
       [] n = "i" -> [degree |-> 0, quality |-> <<"m">>]
       [] n = "iv" -> [degree |-> 3, quality |-> <<"m">>]
       [] n = "III" -> [degree |-> 2, quality |-> <<>>]
       [] n = "VI" -> [degree |-> 5, quality |-> <<>>]
       [] n = "VII" -> [degree |-> 6, quality |-> <<>>]]

\* NOTE_NAMES.indexOf(note), 0-based
NoteIndex(note) == CHOOSE i \in 0..11 : NOTE_NAMES[i + 1] = note

numeralToChord(numeral, keyRoot, mode) ==
  LET scale == IF mode = "major" THEN majorScale ELSE minorScale
  IN IF numeral \notin DOMAIN numeralMap THEN <<numeral>>
     ELSE NOTE_NAMES[((NoteIndex(keyRoot) + scale[numeralMap[numeral].degree + 1]) % 12) + 1]
            \o numeralMap[numeral].quality

RECURSIVE ScanFrom(_, _)
\* the pairs (progression[i], progression[i + 1]) the two loops visit, in
\* order, from progression p on
ScanFrom(progressions, p) ==
  IF p > Len(progressions) THEN <<>>
  ELSE [i \in 1..(Len(progressions[p]) - 1) |->
          [numeral |-> progressions[p][i], nextNumeral |-> progressions[p][i + 1]]]
         \o ScanFrom(progressions, p + 1)

\* the test that the progression chord is the current chord
ChordFits(chordInKey, currentChord) ==
  \/ chordInKey = currentChord
  \/ ReplaceFirst(chordInKey, <<"m">>, <<>>) = ReplaceFirst(currentChord, <<"m">>, <<>>)

\* PredictStep without the includes test
PredictStep_noIncludes(step, currentChord, keyRoot, mode, predictions) ==
  LET chordInKey == numeralToChord(step.numeral, keyRoot, mode)
      nextChord == numeralToChord(step.nextNumeral, keyRoot, mode)
  IN IF ChordFits(chordInKey, currentChord)
     THEN Append(predictions, nextChord)
     ELSE predictions

\* the body of the inner loop for one visited pair
PredictStep(step, currentChord, keyRoot, mode, predictions) ==
  LET chordInKey == numeralToChord(step.numeral, keyRoot, mode)
      nextChord == numeralToChord(step.nextNumeral, keyRoot, mode)
  IN IF ChordFits(chordInKey, currentChord)
     THEN IF nextChord \notin SeqToSet(predictions)
          THEN Append(predictions, nextChord)
          ELSE predictions
     ELSE predictions

RECURSIVE PredictLoop(_, _, _, _, _, _)
\* the loops from visited pair k on; next ranges over the one value of the
\* predictions after pair k
PredictLoop(steps, k, currentChord, keyRoot, mode, predictions) ==
  IF k > Len(steps) THEN predictions
  ELSE CHOOSE result \in
         {PredictLoop(steps, k + 1, currentChord, keyRoot, mode, next) :
            next \in {PredictStep(steps[k], currentChord, keyRoot, mode, predictions)}} :
         TRUE

predictNextChords(currentChord, keyRoot, mode) ==
  Slice(PredictLoop(ScanFrom(COMMON_PROGRESSIONS[mode], 1), 1, currentChord, keyRoot,
                    mode, <<>>),
        0, 3)

\* ------------------------------------------------------ input vectors
\* a 12-bin vector transposed up by r semitones: bin (r + k) mod 12 gets arr[k]
TransposeTo(arr, r) == [j \in 1..12 |-> arr[((j - 1 - r + 12) % 12) + 1]]

\* a vector with w at the root r and u at the major third and at the fifth
SmallTriad(r, w, u) ==
  [j \in 1..12 |-> IF j - 1 = r THEN w
                   ELSE IF j - 1 = (r + 4) % 12 \/ j - 1 = (r + 7) % 12 THEN u ELSE 0]

SmallRoots == {(7 * i) % 12 : i \in 0..(MaxSmallRoots - 1)}
\* the hand-made vectors are in tenths, hundredths or thousandths
SmallDens == {10, 100, 1000}

\* (a/b) * chroma
ScaleChroma(chroma, a, b) ==
  [v |-> [i \in 1..Len(chroma.v) |-> a * chroma.v[i]], den |-> b * chroma.den]

\* a vector with w at the root r and u at the fifth (a chord without a third)
OpenFifth(r, w, u) ==
  [j \in 1..12 |-> IF j - 1 = r THEN w ELSE IF j - 1 = (r + 7) % 12 THEN u ELSE 0]

\* a chromatic cluster, in hundredths: seven neighbouring pitch classes
\* sounding, the loudest in the middle
ClusterChroma == <<50, 60, 54, 45, 6, 0, 0, 0, 0, 0, 11, 43>>

NotRun == [notRun |-> TRUE]
ZeroChroma == [v |-> [j \in 1..12 |-> 0], den |-> 1]

\* a chroma that repeats every six bins (a tritone pair over a floor): w at
\* the bins r and r + 6, u at the others; flat when w = u
PeriodicChroma(r, w, u) ==
  [j \in 1..12 |-> IF (j - 1) % 6 = r THEN w ELSE u]

\* ------------------------------------------ key estimator: the machine
KeyInit ==
  /\ kChroma = ZeroChroma
  /\ kResult = NotRun

KeyLoadProfile ==
  \E mode \in {"major", "minor"}, r \in 0..11 :
    /\ kChroma' = [v |-> TransposeTo(KeyProfile(mode), r), den |-> 100]
    /\ kResult' = NotRun

KeyLoadSmall ==
  \E r \in SmallRoots, w \in 0..MaxSmall, u \in 0..MaxSmall, d \in SmallDens :
    /\ kChroma' = [v |-> SmallTriad(r, w, u), den |-> d]
    /\ kResult' = NotRun

KeyLoadPeriodic ==
  \E r \in 0..5, w \in 1..MaxSmall, u \in 0..MaxSmall, d \in SmallDens :
    /\ kChroma' = [v |-> PeriodicChroma(r, w, u), den |-> d]
    /\ kResult' = NotRun

KeyDetect ==
  /\ kResult = NotRun
  /\ kResult' = detectKeyFromChroma(kChroma)
  /\ UNCHANGED kChroma

KeyNext ==
  \/ KeyLoadProfile /\ UNCHANGED <<chordVars, matchVars, hookVars, predictVars, scoreVars, normalizeVars, findVars, catalogueVars, similarVars, activityVars>>
  \/ KeyLoadSmall /\ UNCHANGED <<chordVars, matchVars, hookVars, predictVars, scoreVars, normalizeVars, findVars, catalogueVars, similarVars, activityVars>>
  \/ KeyLoadPeriodic /\ UNCHANGED <<chordVars, matchVars, hookVars, predictVars, scoreVars, normalizeVars, findVars, catalogueVars, similarVars, activityVars>>
  \/ KeyDetect /\ UNCHANGED <<chordVars, matchVars, hookVars, predictVars, scoreVars, normalizeVars, findVars, catalogueVars, similarVars, activityVars>>

\* ---------------------------------------- chord estimator: the machine
ChordInit ==
  /\ cChroma = ZeroChroma
  /\ cResult = NotRun
  /\ cScaled = NotRun
  /\ cSingle = NotRun

ChordLoadTemplate ==
  \E q \in {ChordQuality[i] : i \in 1..Len(ChordQuality)}, r \in 0..11 :
    /\ cChroma' = [v |-> TransposeTo(CHORD_TEMPLATES[q], r), den |-> 10]
    /\ cResult' = NotRun
    /\ cScaled' = NotRun
    /\ cSingle' = NotRun

ChordLoadSmall ==
  \E r \in SmallRoots, w \in 0..MaxSmall, u \in 0..MaxSmall, d \in SmallDens :
    /\ cChroma' = [v |-> SmallTriad(r, w, u), den |-> d]
    /\ cResult' = NotRun
    /\ cScaled' = NotRun
    /\ cSingle' = NotRun

ChordLoadFifth ==
  \E r \in SmallRoots, w \in 1..MaxSmall, u \in 1..MaxSmall :
    /\ cChroma' = [v |-> OpenFifth(r, w, u), den |-> 10]
    /\ cResult' = NotRun
    /\ cScaled' = NotRun
    /\ cSingle' = NotRun

ChordLoadCluster ==
  \E r \in 0..11 :
    /\ cChroma' = [v |-> TransposeTo(ClusterChroma, r), den |-> 100]
    /\ cResult' = NotRun
    /\ cScaled' = NotRun
    /\ cSingle' = NotRun

\* the detector is run on the vector and on a scaled copy of it
ChordDetect ==
  /\ cResult = NotRun
  /\ cResult' = detectChordWithAlternatives(cChroma)
  /\ cSingle' = detectChordFromChroma(cChroma)
  /\ \E a \in 1..MaxScale, b \in 1..MaxScale :
       cScaled' = [a |-> a, b |-> b,
                   result |-> detectChordWithAlternatives(ScaleChroma(cChroma, a, b))]
  /\ UNCHANGED cChroma

ChordNext ==
  \/ ChordLoadTemplate /\ UNCHANGED <<keyVars, matchVars, hookVars, predictVars, scoreVars, normalizeVars, findVars, catalogueVars, similarVars, activityVars>>
  \/ ChordLoadSmall /\ UNCHANGED <<keyVars, matchVars, hookVars, predictVars, scoreVars, normalizeVars, findVars, catalogueVars, similarVars, activityVars>>
  \/ ChordLoadFifth /\ UNCHANGED <<keyVars, matchVars, hookVars, predictVars, scoreVars, normalizeVars, findVars, catalogueVars, similarVars, activityVars>>
  \/ ChordLoadCluster /\ UNCHANGED <<keyVars, matchVars, hookVars, predictVars, scoreVars, normalizeVars, findVars, catalogueVars, similarVars, activityVars>>
  \/ ChordDetect /\ UNCHANGED <<keyVars, matchVars, hookVars, predictVars, scoreVars, normalizeVars, findVars, catalogueVars, similarVars, activityVars>>

\* ------------------- both estimators on the same vector: the machine
\* the frame callback hands both estimators a smoothed vector of the same
\* frames; here both get the same quiet vector
QuietLoad ==
  \E r \in SmallRoots, w \in 0..MaxSmall, u \in 0..MaxSmall, d \in SmallDens :
    /\ kChroma' = [v |-> SmallTriad(r, w, u), den |-> d]
    /\ cChroma' = [v |-> SmallTriad(r, w, u), den |-> d]
    /\ kResult' = NotRun
    /\ cResult' = NotRun
    /\ cScaled' = NotRun
    /\ cSingle' = NotRun

QuietDetect == KeyDetect /\ ChordDetect

QuietNext ==
  \/ QuietLoad /\ UNCHANGED <<matchVars, hookVars, predictVars, scoreVars, normalizeVars, findVars, catalogueVars, similarVars, activityVars>>
  \/ QuietDetect /\ UNCHANGED <<matchVars, hookVars, predictVars, scoreVars, normalizeVars, findVars, catalogueVars, similarVars, activityVars>>

\* --------------------------------------- fragment matcher: the machine
\* labels pushed one at a time: a catalogue chord, its relative minor, and
\* a chord no catalogue entry has
PushLabels == { <<"C">>, <<"A","m">>, <<"D","#">> }

\* labels handed to chordsMatch: both sides of every relative pair, and labels
\* with a flat root or an extension
CompareLabels ==
  UNION {{relativePairs[i][1], relativePairs[i][2]} : i \in 1..Len(relativePairs)}
    \cup { <<"D","b">>, <<"C","#">>, <<"A","#">>, <<"C","m","a","j","7">>,
           <<"D","m","7">>, <<"G","7">> }

\* the detected key handed to the matcher: none, or a note name and a mode
KeyChoices ==
  {[key |-> <<>>, mode |-> ""]}
    \cup {[key |-> NOTE_NAMES[((5 * i) % 12) + 1], mode |-> m] :
            i \in 0..(MaxKeys - 1), m \in {"", "major", "minor"}}

MatchInit ==
  /\ mChords = <<>>
  /\ mResult = NotRun
  /\ mCmp = NotRun

\* chordBufferRef.current.push(displayName), keeping the last 15
MatchPush ==
  \E label \in PushLabels :
    /\ Len(mChords) < MaxWindow
    /\ mChords' = (IF Len(mChords) + 1 > 15 THEN Tail(Append(mChords, label))
                   ELSE Append(mChords, label))
    /\ mResult' = NotRun
    /\ UNCHANGED mCmp

\* chordBufferRef.current = []
MatchClear ==
  /\ mChords' = <<>>
  /\ mResult' = NotRun
  /\ UNCHANGED mCmp

\* the player plays the first n chords of a catalogue entry
MatchPlaySong ==
  \E i \in 1..Len(SONG_DATABASE) :
    \E n \in 1..Len(SONG_DATABASE[i].chords) :
      /\ mChords' = SubSeq(SONG_DATABASE[i].chords, 1, n)
      /\ mResult' = NotRun
      /\ UNCHANGED mCmp

MatchRun ==
  /\ mResult = NotRun
  /\ \E k \in KeyChoices :
       mResult' = [key |-> k.key, mode |-> k.mode,
                   result |-> suggestSongsFromChords(mChords, k.key, k.mode)]
  /\ UNCHANGED <<mChords, mCmp>>

MatchNext ==
  \/ MatchPush /\ UNCHANGED <<keyVars, chordVars, hookVars, predictVars, scoreVars, normalizeVars, findVars, catalogueVars, similarVars, activityVars>>
  \/ MatchClear /\ UNCHANGED <<keyVars, chordVars, hookVars, predictVars, scoreVars, normalizeVars, findVars, catalogueVars, similarVars, activityVars>>
  \/ MatchPlaySong /\ UNCHANGED <<keyVars, chordVars, hookVars, predictVars, scoreVars, normalizeVars, findVars, catalogueVars, similarVars, activityVars>>
  \/ MatchRun /\ UNCHANGED <<keyVars, chordVars, hookVars, predictVars, scoreVars, normalizeVars, findVars, catalogueVars, similarVars, activityVars>>

\* one call of chordsMatch on two labels
CompareCall ==
  \E a \in CompareLabels, b \in CompareLabels :
    /\ mCmp' = [a |-> a, b |-> b, match |-> chordsMatch(a, b)]
    /\ UNCHANGED <<mChords, mResult>>

CompareNext ==
  CompareCall /\ UNCHANGED <<keyVars, chordVars, hookVars, predictVars, scoreVars, normalizeVars, findVars, catalogueVars, similarVars, activityVars>>

\* ------------------------------------- chord-detector hook: the machine
\* the defaults of UseChordDetectorOptions
minSamples == 8
minChordDuration == 300
maxHistorySize == 20

\* milliseconds between two frame callbacks (a 2048-sample buffer)
FrameMs == 50
\* the clock reading when the hook mounts; lastChordTimeRef starts at 0, and
\* every clock reading is more than minChordDuration after it
MountTime == 1000

\* the displayName detectChordWithAlternatives gives for the smoothed chroma
\* of a detection pass; <<>> when it returns no chord
HookLabels == { <<"C">>, <<"G">> }

HookInit ==
  /\ hListening = FALSE
  /\ hSampleCount = 0
  /\ hLastChord = <<>>
  /\ hLastChordTime = 0
  /\ hCurrentChord = <<>>
  /\ hCaptured = <<>>
  /\ hHistory = <<>>
  /\ hNow = MountTime
  /\ hRunLabel = <<>>
  /\ hRunStart = 0
  /\ hHeld = {}
  /\ hAccumulatedChroma = {}
  /\ hKeyAccumulator = {}
  /\ hKeySampleCount = 0
  /\ hAccepted = 0
  /\ hLog = <<>>

\* startListening: the analyzer callback it creates closes over the
\* currentChord of the render that created startListening; no ref and no
\* other state is assigned
HookStart ==
  /\ ~hListening
  /\ hListening' = TRUE
  /\ hCaptured' = hCurrentChord
  /\ hAccepted' = 0
  /\ UNCHANGED <<hSampleCount, hLastChord, hLastChordTime, hCurrentChord, hHistory,
                 hNow, hRunLabel, hRunStart, hHeld, hAccumulatedChroma,
                 hKeyAccumulator, hKeySampleCount, hLog>>

\* stopListening: stops the analyzer and leaves every ref and state as it is
HookStop ==
  /\ hListening
  /\ hListening' = FALSE
  /\ hRunLabel' = <<>>
  /\ UNCHANGED <<hSampleCount, hLastChord, hLastChordTime, hCurrentChord, hCaptured,
                 hHistory, hNow, hRunStart, hHeld, hAccumulatedChroma,
                 hKeyAccumulator, hKeySampleCount, hAccepted, hLog>>

\* reset
HookReset ==
  /\ hSampleCount' = 0
  /\ hLastChord' = <<>>
  /\ hLastChordTime' = 0
  /\ hCurrentChord' = <<>>
  /\ hHistory' = <<>>
  /\ hAccumulatedChroma' = {}
  /\ hKeyAccumulator' = {}
  /\ hKeySampleCount' = 0
  /\ hAccepted' = 0
  /\ hLog' = <<>>
  /\ UNCHANGED <<hListening, hCaptured, hNow, hRunLabel, hRunStart, hHeld>>

\* the append that keeps the first historySize entries and drops the new one
AppendBounded_dropNewest(prev, entry, historySize) ==
  Slice(Append(prev, entry), 0, historySize)

\* [...prev, entry].slice(-maxHistorySize), for a maxHistorySize above 0
AppendBounded(prev, entry, historySize) ==
  Slice(Append(prev, entry), MaxOf({0, Len(prev) + 1 - historySize}), Len(prev) + 1)

\* the chroma of a frame, as the set of pitch classes at which it is above
\* 0: silence, the tones of C major, the tones of G major
FrameChromas == { {}, {0, 4, 7}, {2, 7, 11} }

\* prev * (1 - f) + frame * f at each pitch class, for a factor f strictly
\* between 0 and 1 and values that are never negative: the result is above 0
\* exactly where prev or the frame is
SmoothInto(prev, frame) == prev \cup frame

\* one call of the analyzer callback with a chroma frame, in a hook mounted
\* with historySize as its maxHistorySize and chordDuration as its
\* minChordDuration, and watched for `frames` frames.
\* label is what the detection pass finds (only read on a pass); eager tells
\* whether the setChordHistory updater runs at once, before lastChordTimeRef
\* is reassigned, or later, after it
HookFrameWith(frames, historySize, chordDuration) ==
  /\ hListening
  /\ hNow < MountTime + frames * FrameMs
  /\ \E label \in HookLabels \cup {<<>>}, eager \in BOOLEAN, frame \in FrameChromas :
       LET count == hSampleCount + 1
           now == hNow + FrameMs
           pass == count % 3 = 0 /\ count >= minSamples
           timeSinceLastChord == now - hLastChordTime
           changed == /\ pass
                      /\ label # <<>>
                      /\ label # hLastChord
                      /\ timeSinceLastChord > chordDuration
           recorded == changed /\ hLastChord # <<>> /\ hCaptured # <<>>
           entry == [chord |-> hCaptured,
                     timestamp |-> IF eager THEN hLastChordTime ELSE now,
                     duration |-> timeSinceLastChord]
       IN /\ (~pass => label = <<>>)
          /\ (~recorded => ~eager)
          \* detectChordWithAlternatives gives no chord for the zero vector
          /\ (label # <<>> => SmoothInto(hAccumulatedChroma, frame) # {})
          /\ hAccumulatedChroma' = SmoothInto(hAccumulatedChroma, frame)
          /\ hKeyAccumulator' = SmoothInto(hKeyAccumulator, frame)
          /\ hKeySampleCount' = hKeySampleCount + 1
          /\ hAccepted' = (IF changed THEN hAccepted + 1 ELSE hAccepted)
          /\ hSampleCount' = count
          /\ hNow' = now
          /\ hHistory' = (IF recorded THEN AppendBounded(hHistory, entry, historySize)
                          ELSE hHistory)
          /\ hLog' = (IF recorded THEN Append(hLog, entry) ELSE hLog)
          /\ hLastChord' = (IF changed THEN label ELSE hLastChord)
          /\ hLastChordTime' = (IF changed THEN now ELSE hLastChordTime)
          /\ hCurrentChord' = (IF pass /\ label # <<>> THEN label ELSE hCurrentChord)
          /\ hRunLabel' = (IF pass THEN label ELSE hRunLabel)
          /\ hRunStart' = (IF pass /\ label # hRunLabel THEN now ELSE hRunStart)
          /\ hHeld' = (IF /\ pass
                          /\ label # <<>>
                          /\ label = hRunLabel
                          /\ now - hRunStart >= chordDuration
                       THEN hHeld \cup {label}
                       ELSE hHeld)
          /\ UNCHANGED <<hListening, hCaptured>>

\* the frame callback of a hook mounted with the default options
HookFrame == HookFrameWith(MaxFrames, maxHistorySize, minChordDuration)

\* a hook mounted with {maxHistorySize: SmallHistorySize, minChordDuration:
\* ShortChordDuration}, where every detection pass can bring an accepted change
HistoryFrame == HookFrameWith(MaxHistoryFrames, SmallHistorySize, ShortChordDuration)

HookNext ==
  \/ HookStart /\ UNCHANGED <<keyVars, chordVars, matchVars, predictVars, scoreVars, normalizeVars, findVars, catalogueVars, similarVars, activityVars>>
  \/ HookStop /\ UNCHANGED <<keyVars, chordVars, matchVars, predictVars, scoreVars, normalizeVars, findVars, catalogueVars, similarVars, activityVars>>
  \/ HookReset /\ UNCHANGED <<keyVars, chordVars, matchVars, predictVars, scoreVars, normalizeVars, findVars, catalogueVars, similarVars, activityVars>>
  \/ HookFrame /\ UNCHANGED <<keyVars, chordVars, matchVars, predictVars, scoreVars, normalizeVars, findVars, catalogueVars, similarVars, activityVars>>

HistoryNext ==
  \/ HookStart /\ UNCHANGED <<keyVars, chordVars, matchVars, predictVars, scoreVars, normalizeVars, findVars, catalogueVars, similarVars, activityVars>>
  \/ HookStop /\ UNCHANGED <<keyVars, chordVars, matchVars, predictVars, scoreVars, normalizeVars, findVars, catalogueVars, similarVars, activityVars>>
  \/ HookReset /\ UNCHANGED <<keyVars, chordVars, matchVars, predictVars, scoreVars, normalizeVars, findVars, catalogueVars, similarVars, activityVars>>
  \/ HistoryFrame /\ UNCHANGED <<keyVars, chordVars, matchVars, predictVars, scoreVars, normalizeVars, findVars, catalogueVars, similarVars, activityVars>>

\* ------------------------------------------------------ specifications
\* ------------------------------------ progression predictor: the machine
PredictInit == pResult = NotRun

\* the hook calls predictNextChords(currentChord.displayName, key.key,
\* key.mode); here it is called for a root with one quality and for the same
\* root with another quality, in the same key
PredictCall ==
  /\ pResult = NotRun
  /\ \E root \in SeqToSet(NOTE_NAMES), quality \in SeqToSet(ChordQuality),
        other \in SeqToSet(ChordQuality), keyRoot \in SeqToSet(NOTE_NAMES),
        mode \in {"major", "minor"} :
       pResult' = [chord |-> formatChordName(root, quality),
                   root |-> root,
                   quality |-> quality,
                   other |-> other,
                   keyRoot |-> keyRoot,
                   mode |-> mode,
                   result |-> predictNextChords(formatChordName(root, quality),
                                                keyRoot, mode),
                   otherResult |-> predictNextChords(formatChordName(root, other),
                                                     keyRoot, mode)]

\* setPredictedNextChords(predictions): the caller takes the result
PredictReturn ==
  /\ pResult # NotRun
  /\ pResult' = NotRun

PredictNext ==
  \/ PredictCall /\ UNCHANGED <<keyVars, chordVars, matchVars, hookVars, scoreVars, normalizeVars, findVars, catalogueVars, similarVars, activityVars>>
  \/ PredictReturn /\ UNCHANGED <<keyVars, chordVars, matchVars, hookVars, scoreVars, normalizeVars, findVars, catalogueVars, similarVars, activityVars>>

\* ------------------------------------------- match score: the machine
ScoreInit == sCall = NotRun

\* one call of calculateMatchScore, with what it counted
ScoreOf(song, detected) ==
  [song |-> song,
   detected |-> detected,
   counts |-> MatchCounts(NormalizeAll(detected), NormalizeAll(SONG_DATABASE[song].chords)),
   result |-> calculateMatchScore(detected, SONG_DATABASE[song].chords)]

\* the detected chords are a catalogue entry's progression
ScorePlay ==
  /\ sCall = NotRun
  /\ \E song \in 1..Len(SONG_DATABASE) :
       sCall' = ScoreOf(song, SONG_DATABASE[song].chords)

\* the same chords with two neighbours exchanged
ScoreShuffle ==
  /\ sCall # NotRun
  /\ Len(sCall.detected) <= MaxShuffled
  /\ \E k \in 1..(Len(sCall.detected) - 1) :
       sCall' = ScoreOf(sCall.song,
                        [j \in 1..Len(sCall.detected) |->
                           IF j = k THEN sCall.detected[k + 1]
                           ELSE IF j = k + 1 THEN sCall.detected[k]
                           ELSE sCall.detected[j]])

ScoreReturn ==
  /\ sCall # NotRun
  /\ sCall' = NotRun

\* the labels of a window with the extension 7 added to each, as Am7 for Am
WithSevenths(chords) == [j \in 1..Len(chords) |-> chords[j] \o <<"7">>]

\* the detected chords are a window of what a player plays who repeats the
\* progression of a catalogue entry, the entry scored or the one after it in
\* the catalogue, heard as triads or as seventh chords
ScoreWindow ==
  /\ sCall = NotRun
  /\ \E song \in 1..Len(SONG_DATABASE), other \in 0..1,
        first \in 1..(MaxOffset + 1), n \in 1..MaxPlayed, sevenths \in BOOLEAN :
       LET played == SONG_DATABASE[((song + other - 1) % Len(SONG_DATABASE)) + 1].chords
           window == [j \in 1..n |-> played[((first + j - 2) % Len(played)) + 1]]
       IN sCall' = ScoreOf(song, IF sevenths THEN WithSevenths(window) ELSE window)

ScoreNext ==
  \/ ScorePlay /\ UNCHANGED <<keyVars, chordVars, matchVars, hookVars, predictVars, normalizeVars, findVars, catalogueVars, similarVars, activityVars>>
  \/ ScoreShuffle /\ UNCHANGED <<keyVars, chordVars, matchVars, hookVars, predictVars, normalizeVars, findVars, catalogueVars, similarVars, activityVars>>
  \/ ScoreReturn /\ UNCHANGED <<keyVars, chordVars, matchVars, hookVars, predictVars, normalizeVars, findVars, catalogueVars, similarVars, activityVars>>

WindowNext ==
  \/ ScoreWindow /\ UNCHANGED <<keyVars, chordVars, matchVars, hookVars, predictVars, normalizeVars, findVars, catalogueVars, similarVars, activityVars>>
  \/ ScoreReturn /\ UNCHANGED <<keyVars, chordVars, matchVars, hookVars, predictVars, normalizeVars, findVars, catalogueVars, similarVars, activityVars>>

\* ------------------------------------------ normalization: the machine
\* the roots of chord labels: the note names and the five flat spellings
LabelRoots == SeqToSet(NOTE_NAMES) \cup {enharmonicMap[i].flat : i \in 1..Len(enharmonicMap)}

\* the suffixes of chord labels: those of formatChordName, and dim7
LabelSuffixes == {qualitySuffix[q] : q \in SeqToSet(ChordQuality)} \cup {<<"d","i","m","7">>}

NormalizeInit == nCall = NotRun

\* normalizeChord on a label and on its own result, and chordsMatch of the
\* label with its normalized form
NormalizeCall ==
  /\ nCall = NotRun
  /\ \E root \in LabelRoots, suffix \in LabelSuffixes :
       nCall' = [root |-> root,
                 suffix |-> suffix,
                 label |-> root \o suffix,
                 once |-> normalizeChord(root \o suffix),
                 twice |-> normalizeChord(normalizeChord(root \o suffix)),
                 matchesOnce |-> chordsMatch(root \o suffix, normalizeChord(root \o suffix))]

NormalizeReturn ==
  /\ nCall # NotRun
  /\ nCall' = NotRun

NormalizeNext ==
  \/ NormalizeCall /\ UNCHANGED <<keyVars, chordVars, matchVars, hookVars, predictVars, scoreVars, findVars, catalogueVars, similarVars, activityVars>>
  \/ NormalizeReturn /\ UNCHANGED <<keyVars, chordVars, matchVars, hookVars, predictVars, scoreVars, findVars, catalogueVars, similarVars, activityVars>>

\* --------------------------------------- findMatchingSongs: the machine
\* the options of a call: the defaults, a stricter choice with a difficulty,
\* and a choice that lets every score through
FindOptions ==
  { DefaultOptions,
    [minScore |-> [num |-> 1, den |-> 2], maxResults |-> 3, difficulty |-> "beginner"],
    [minScore |-> [num |-> 0, den |-> 1], maxResults |-> 5, difficulty |-> ""] }

\* the detected chords of a call: a catalogue entry's progression, and lists
\* of a chord no catalogue entry has
FindChordLists ==
  {SONG_DATABASE[i].chords : i \in 1..Len(SONG_DATABASE)}
    \cup { <<>>, << <<"D","#">> >>, << <<"D","#">>, <<"D","#">> >> }

\* the detected key of a call: none, the key of most catalogue entries, a
\* minor key, and a key of no catalogue entry without a mode
FindKeys ==
  { [key |-> <<>>, mode |-> ""],
    [key |-> <<"C">>, mode |-> "major"],
    [key |-> <<"A">>, mode |-> "minor"],
    [key |-> <<"F","#">>, mode |-> ""] }

FindInit == fCall = NotRun

\* one call of findMatchingSongs, the same call without a key, and the score
\* calculateMatchScore gives every catalogue entry for these chords
FindCall ==
  /\ fCall = NotRun
  /\ \E detected \in FindChordLists, k \in FindKeys, options \in FindOptions :
       fCall' = [detectedChords |-> detected,
                 key |-> k.key,
                 mode |-> k.mode,
                 options |-> options,
                 matches |-> findMatchingSongs(detected, k.key, k.mode, options),
                 noKey |-> findMatchingSongs(detected, <<>>, "", options),
                 scores |-> [i \in 1..Len(SONG_DATABASE) |->
                               calculateMatchScore(detected,
                                                   SONG_DATABASE[i].chords).score]]

FindReturn ==
  /\ fCall # NotRun
  /\ fCall' = NotRun

FindNext ==
  \/ FindCall /\ UNCHANGED <<keyVars, chordVars, matchVars, hookVars, predictVars, scoreVars, normalizeVars, catalogueVars, similarVars, activityVars>>
  \/ FindReturn /\ UNCHANGED <<keyVars, chordVars, matchVars, hookVars, predictVars, scoreVars, normalizeVars, catalogueVars, similarVars, activityVars>>

\* ------------------------------- a catalogue with a bad entry: the machine
\* an entry whose chord list is empty
EmptyEntry == [SONG_DATABASE[1] EXCEPT !.id = "no-chords", !.chords = <<>>]

\* the places of the entry: before the first catalogue entry, in the middle,
\* after the last
EntryPlaces == {0, Len(SONG_DATABASE) \div 2, Len(SONG_DATABASE)}

\* SONG_DATABASE with the entry put after the first `place` entries
WithEmptyEntry(place) ==
  SubSeq(SONG_DATABASE, 1, place) \o <<EmptyEntry>>
    \o SubSeq(SONG_DATABASE, place + 1, Len(SONG_DATABASE))

CatalogueInit == gCall = NotRun

\* one call of findMatchingSongs over the catalogue with the entry, and the
\* same call over SONG_DATABASE
CatalogueCall ==
  /\ gCall = NotRun
  /\ \E detected \in FindChordLists, options \in FindOptions, place \in EntryPlaces :
       gCall' = [detectedChords |-> detected,
                 options |-> options,
                 place |-> place,
                 matches |-> findMatchingSongsIn(WithEmptyEntry(place), detected,
                                                 <<>>, "", options),
                 without |-> findMatchingSongs(detected, <<>>, "", options)]

CatalogueReturn ==
  /\ gCall # NotRun
  /\ gCall' = NotRun

CatalogueNext ==
  \/ CatalogueCall /\ UNCHANGED <<keyVars, chordVars, matchVars, hookVars, predictVars, scoreVars, normalizeVars, findVars, similarVars, activityVars>>
  \/ CatalogueReturn /\ UNCHANGED <<keyVars, chordVars, matchVars, hookVars, predictVars, scoreVars, normalizeVars, findVars, similarVars, activityVars>>

\* ---------------------------------------- findSimilarSongs: the machine
\* the ids asked about: every catalogue id, and an id of no entry
SimilarIds == {SONG_DATABASE[i].id : i \in 1..Len(SONG_DATABASE)} \cup {"no-such-song"}

\* the maxResults of a call: one, fewer than the default, the default 5, and
\* the length of the catalogue
SimilarLimits == {1, 3, 5, Len(SONG_DATABASE)}

SimilarInit == simCall = NotRun

\* one call of findSimilarSongs, and the score its loop gives every
\* catalogue entry (no score when the id is unknown)
SimilarCall ==
  /\ simCall = NotRun
  /\ \E songId \in SimilarIds, maxResults \in SimilarLimits :
       simCall' = [songId |-> songId,
                   maxResults |-> maxResults,
                   result |-> findSimilarSongs(songId, maxResults),
                   scored |->
                     IF \E i \in 1..Len(SONG_DATABASE) : SONG_DATABASE[i].id = songId
                     THEN [i \in 1..Len(SONG_DATABASE) |->
                             SimilarityScore(
                               SONG_DATABASE[CHOOSE t \in 1..Len(SONG_DATABASE) :
                                               SONG_DATABASE[t].id = songId],
                               SONG_DATABASE[i])]
                     ELSE <<>>]

SimilarReturn ==
  /\ simCall # NotRun
  /\ simCall' = NotRun

SimilarNext ==
  \/ SimilarCall /\ UNCHANGED <<keyVars, chordVars, matchVars, hookVars, predictVars, scoreVars, normalizeVars, findVars, catalogueVars, activityVars>>
  \/ SimilarReturn /\ UNCHANGED <<keyVars, chordVars, matchVars, hookVars, predictVars, scoreVars, normalizeVars, findVars, catalogueVars, activityVars>>

\* ------------------------------------ the activity detector: the machine
\* the defaults of UseActivityDetectorOptions; volumes are in thousandths
activityThreshold == 20
silenceTimeout == 3000
activityMinDuration == 500
analysisInterval == 100

\* the rms of a sample: silence, a sound under the threshold, a sound over it
VolumeLevels == {0, 10, 500}

\* the activity state of useState and of stopMonitoring
NoActivity ==
  [isActive |-> FALSE, volume |-> 0, peakAboveZero |-> FALSE,
   silenceDuration |-> 0, activityDuration |-> 0]

ActivityInit ==
  /\ aMonitoring = FALSE
  /\ aNow = MountTime
  /\ aLastActivityTime = 0
  /\ aLastSilenceTime = 0
  /\ aPeakAboveZero = FALSE
  /\ aWasActive = FALSE
  /\ aIsActiveRef = FALSE
  /\ aActivity = NoActivity
  /\ aLoudSince = 0
  /\ aQuietSince = 0

\* startMonitoring
ActivityStart ==
  /\ ~aMonitoring
  /\ aMonitoring' = TRUE
  /\ aLastActivityTime' = 0
  /\ aLastSilenceTime' = aNow
  /\ aPeakAboveZero' = FALSE
  /\ aWasActive' = FALSE
  /\ aLoudSince' = 0
  /\ aQuietSince' = aNow
  /\ UNCHANGED <<aNow, aIsActiveRef, aActivity>>

\* stopMonitoring
ActivityStop ==
  /\ aMonitoring
  /\ aMonitoring' = FALSE
  /\ aActivity' = NoActivity
  /\ aLoudSince' = 0
  /\ aQuietSince' = 0
  /\ UNCHANGED <<aNow, aLastActivityTime, aLastSilenceTime, aPeakAboveZero, aWasActive,
                 aIsActiveRef>>

\* analyzeVolume, run by the interval, on a sample of volume rms
ActivityAnalyze ==
  /\ aMonitoring
  /\ aNow < MountTime + MaxSamples * analysisInterval
  /\ \E rms \in VolumeLevels :
       LET now == aNow + analysisInterval
           isCurrentlyActive == rms > activityThreshold
           lastActivityTime == IF isCurrentlyActive THEN now ELSE aLastActivityTime
           lastSilenceTime ==
             IF isCurrentlyActive
             THEN (IF ~aWasActive THEN 0 ELSE aLastSilenceTime)
             ELSE (IF aWasActive /\ aLastSilenceTime = 0 THEN now ELSE aLastSilenceTime)
           silenceDuration == IF lastSilenceTime > 0 THEN now - lastSilenceTime ELSE 0
           activityDuration ==
             IF isCurrentlyActive /\ lastActivityTime > 0
             THEN now - (IF lastSilenceTime # 0 THEN lastSilenceTime
                         ELSE lastActivityTime
                                - (IF aWasActive THEN 0 ELSE activityMinDuration))
             ELSE 0
           isStableActive == isCurrentlyActive /\ activityDuration >= activityMinDuration
           isStableSilence == ~isCurrentlyActive /\ silenceDuration >= silenceTimeout
           isActive == IF isStableActive /\ ~aIsActiveRef THEN TRUE
                       ELSE IF isStableSilence /\ aIsActiveRef THEN FALSE
                       ELSE aIsActiveRef
           \* Math.max(peak * 0.95, rms), then 0 on the switch to silence
           peakAboveZero ==
             IF ~(isStableActive /\ ~aIsActiveRef) /\ isStableSilence /\ aIsActiveRef
             THEN FALSE
             ELSE aPeakAboveZero \/ rms > 0
       IN /\ aNow' = now
          /\ aLastActivityTime' = lastActivityTime
          /\ aLastSilenceTime' = lastSilenceTime
          /\ aPeakAboveZero' = peakAboveZero
          /\ aIsActiveRef' = isActive
          /\ aWasActive' = isCurrentlyActive
          /\ aActivity' = [isActive |-> isActive,
                           volume |-> rms,
                           peakAboveZero |-> peakAboveZero,
                           silenceDuration |-> IF isActive THEN 0 ELSE silenceDuration,
                           activityDuration |-> IF isActive THEN activityDuration ELSE 0]
          /\ aLoudSince' = (IF ~isCurrentlyActive THEN 0
                            ELSE IF aLoudSince = 0 THEN now ELSE aLoudSince)
          /\ aQuietSince' = (IF isCurrentlyActive THEN 0
                             ELSE IF aQuietSince = 0 THEN now ELSE aQuietSince)
          /\ UNCHANGED aMonitoring

ActivityNext ==
  \/ ActivityStart /\ UNCHANGED <<keyVars, chordVars, matchVars, hookVars, predictVars, scoreVars, normalizeVars, findVars, catalogueVars, similarVars>>
  \/ ActivityStop /\ UNCHANGED <<keyVars, chordVars, matchVars, hookVars, predictVars, scoreVars, normalizeVars, findVars, catalogueVars, similarVars>>
  \/ ActivityAnalyze /\ UNCHANGED <<keyVars, chordVars, matchVars, hookVars, predictVars, scoreVars, normalizeVars, findVars, catalogueVars, similarVars>>

Init ==
  /\ ActivityInit
  /\ SimilarInit
  /\ CatalogueInit
  /\ FindInit
  /\ KeyInit
  /\ ChordInit
  /\ MatchInit
  /\ HookInit
  /\ PredictInit
  /\ ScoreInit
  /\ NormalizeInit

SpecKey == Init /\ [][KeyNext]_vars

SpecChord == Init /\ [][ChordNext]_vars

SpecMatch == Init /\ [][MatchNext]_vars

SpecCompare == Init /\ [][CompareNext]_vars

SpecHook == Init /\ [][HookNext]_vars

SpecHistory == Init /\ [][HistoryNext]_vars

SpecPredict == Init /\ [][PredictNext]_vars

SpecScore == Init /\ [][ScoreNext]_vars

SpecWindow == Init /\ [][WindowNext]_vars

SpecNormalize == Init /\ [][NormalizeNext]_vars

SpecQuiet == Init /\ [][QuietNext]_vars

SpecFind == Init /\ [][FindNext]_vars

SpecCatalogue == Init /\ [][CatalogueNext]_vars

SpecSimilar == Init /\ [][SimilarNext]_vars

SpecActivity == Init /\ [][ActivityNext]_vars

\* ------------------------------------------------------------- claims
MajorProfileAt(r) == [v |-> TransposeTo(MAJOR_PROFILE, r), den |-> 100]
TemplateAt(q, r) == [v |-> TransposeTo(CHORD_TEMPLATES[q], r), den |-> 10]

\* root and quality of the best chord of a result, NULL for the empty result
BestOf(result) ==
  IF result.chord = NULL THEN NULL
  ELSE [root |-> result.chord.root, quality |-> result.chord.quality]

\* C1: for every root r, the major profile transposed to r is detected as
\* key NOTE_NAMES[r], mode major, with confidence >= 0.9.
C1_TransposedMajorProfileGivesItsRoot ==
  \A r \in 0..11 :
    (kChroma = MajorProfileAt(r) /\ kResult # NotRun)
      => /\ kResult # NULL
         /\ kResult.key = NOTE_NAMES[r + 1]
         /\ kResult.mode = "major"
         /\ ConfidenceAbove(kResult.confidence, 9, 10, FALSE)

\* the run recorded in mResult was made on the chords now in mChords (every
\* change of mChords discards the recorded run)
MatchRan == mResult # NotRun

FourChords == << <<"C">>, <<"G">>, <<"A","m">>, <<"F">> >>

\* position of the catalogue entry with this id among the matches, 0 if absent
MatchIndex(matches, id) ==
  IF \E k \in 1..Len(matches) : matches[k].song.id = id
  THEN CHOOSE k \in 1..Len(matches) : matches[k].song.id = id
  ELSE 0

\* C2 as stated: given the chords C, G, Am, F and no key, the first match is
\* the catalogue entry whose progression is C, G, Am, F, at tier high.
C2_TopMatchHasThatProgression ==
  (MatchRan /\ mChords = FourChords /\ mResult.key = <<>>)
    => /\ Len(mResult.result.matches) > 0
       /\ mResult.result.matches[1].song.chords = FourChords
       /\ mResult.result.matches[1].confidence = "high"

\* C2 amended: no catalogue entry has the progression C, G, Am, F; given those
\* chords and no key, the first match is twinkle-twinkle at tier high with
\* score 1, and let-it-be, whose progression begins C, G, Am, F, is returned
\* at tier high with score 1 in third place.
C2_TopMatchIsTwinkle ==
  /\ \A i \in 1..Len(SONG_DATABASE) : SONG_DATABASE[i].chords # FourChords
  /\ (MatchRan /\ mChords = FourChords /\ mResult.key = <<>>)
       => /\ Len(mResult.result.matches) > 0
          /\ mResult.result.matches[1].song.id = "twinkle-twinkle"
          /\ mResult.result.matches[1].confidence = "high"
          /\ ScoreAtLeast(mResult.result.matches[1].score, 1, 1)
          /\ MatchIndex(mResult.result.matches, "let-it-be") = 3
          /\ mResult.result.matches[3].confidence = "high"
          /\ ScoreAtLeast(mResult.result.matches[3].score, 1, 1)

C2_Witness ==
  /\ MatchRan
  /\ mChords = FourChords
  /\ mResult.key = <<>>
  /\ mResult.result.matches[1].song.id = "twinkle-twinkle"
  /\ mResult.result.message = "This sounds like"

\* C3: for every catalogue entry with at least 2 chords, when the detected
\* chords are exactly the entry's progression, every detected chord matches
\* in the best window (sequence score 1.0) and the entry is among the
\* returned matches with confidence tier high.
C3_OwnProgressionReturnedHigh ==
  \A i \in 1..Len(SONG_DATABASE) :
    (MatchRan /\ Len(SONG_DATABASE[i].chords) >= 2 /\ mChords = SONG_DATABASE[i].chords)
      => LET k == MatchIndex(mResult.result.matches, SONG_DATABASE[i].id)
         IN /\ k > 0
            /\ mResult.result.matches[k].matchedChords = Len(mChords)
            /\ mResult.result.matches[k].confidence = "high"

C3_Witness ==
  /\ MatchRan
  /\ mChords = SONG_DATABASE[Len(SONG_DATABASE)].chords
  /\ MatchIndex(mResult.result.matches, SONG_DATABASE[Len(SONG_DATABASE)].id) > 0
  /\ mResult.key = <<"F">>

\* C4: every ChordHistoryEntry is for a label that some run of consecutive
\* detection passes gave for at least minChordDuration; a label that was
\* detected for less than that and then gave way never gets an entry.
C4_HistoryOnlyForHeldLabels ==
  \A i \in 1..Len(hHistory) : hHistory[i].chord \in hHeld

\* C5: each of the seven relative major/minor pairs matches, in both
\* directions.
C5_RelativePairsMatchBothWays ==
  \A i \in 1..Len(relativePairs) :
    (/\ mCmp # NotRun
     /\ \/ (mCmp.a = relativePairs[i][1] /\ mCmp.b = relativePairs[i][2])
        \/ (mCmp.a = relativePairs[i][2] /\ mCmp.b = relativePairs[i][1]))
      => mCmp.match

\* C6: whatever the chords and the key, the result has at least one match or
\* at least one suggestion.
C6_NeverEmptyHanded ==
  MatchRan => \/ Len(mResult.result.matches) > 0
              \/ Len(mResult.result.suggestions) > 0

\* C7 as stated: with fewer than 2 chords the result has no matches, no
\* suggestions and the "keep playing" message, whatever the key and mode.
C7_FewChordsGiveNothing ==
  (MatchRan /\ Len(mChords) < 2)
    => /\ mResult.result.matches = <<>>
       /\ mResult.result.suggestions = <<>>
       /\ mResult.result.message = "Keep playing!"

\* C7 amended: with fewer than 2 chords the result has no matches; given both
\* a key and a mode, the message is the "Playing in" one and the suggestions
\* are catalogue entries of that key and mode (none exactly when the
\* catalogue has none); otherwise the message is the "Keep playing!" one and
\* the suggestions are five beginner entries.
C7_FewChordsFallBack ==
  (MatchRan /\ Len(mChords) < 2)
    => LET res == mResult.result
       IN /\ res.matches = <<>>
          /\ IF mResult.key # <<>> /\ mResult.mode # ""
             THEN /\ res.message = "Playing in"
                  /\ \A i \in 1..Len(res.suggestions) :
                       /\ res.suggestions[i].key = mResult.key
                       /\ res.suggestions[i].mode = mResult.mode
                  /\ (res.suggestions = <<>>)
                       = (\A i \in 1..Len(SONG_DATABASE) :
                            \/ SONG_DATABASE[i].key # mResult.key
                            \/ SONG_DATABASE[i].mode # mResult.mode)
             ELSE /\ res.message = "Keep playing!"
                  /\ Len(res.suggestions) = 5
                  /\ \A i \in 1..5 : res.suggestions[i].difficulty = "beginner"

C7_Witness ==
  /\ MatchRan
  /\ Len(mChords) = 1
  /\ mResult.key = <<"C">>
  /\ mResult.mode = "major"
  /\ mResult.result.matches = <<>>
  /\ Len(mResult.result.suggestions) = 5

\* C8 as stated: for each of the nine qualities and every root r, the template
\* of that quality rotated to r is detected as {r, that quality}.
C8_AllNineQualitiesDetected ==
  \A q \in SeqToSet(ChordQuality), r \in 0..11 :
    (cChroma = TemplateAt(q, r) /\ cResult # NotRun)
      => BestOf(cResult) = [root |-> NOTE_NAMES[r + 1], quality |-> q]

\* C8 amended: for each of the seven qualities of COMMON_QUALITIES and every
\* root r, the template of that quality rotated to r is detected as
\* {r, that quality}; a result never names a quality outside COMMON_QUALITIES.
C8_CommonQualitiesDetected ==
  /\ \A q \in SeqToSet(COMMON_QUALITIES), r \in 0..11 :
       (cChroma = TemplateAt(q, r) /\ cResult # NotRun)
         => BestOf(cResult) = [root |-> NOTE_NAMES[r + 1], quality |-> q]
  /\ (cResult # NotRun /\ cResult.chord # NULL)
       => /\ cResult.chord.quality \in SeqToSet(COMMON_QUALITIES)
          /\ \A i \in 1..Len(cResult.alternatives) :
               cResult.alternatives[i].quality \in SeqToSet(COMMON_QUALITIES)

C8_Witness ==
  /\ cChroma = TemplateAt("sus4", 9)
  /\ cResult # NotRun
  /\ BestOf(cResult) = [root |-> <<"A">>, quality |-> "sus4"]

\* C9: for every root r, the major template rotated by r semitones is
\* detected as root NOTE_NAMES[r], quality major, with confidence >= 0.9.
C9_MajorTemplateDetected ==
  \A r \in 0..11 :
    (cChroma = TemplateAt("major", r) /\ cResult # NotRun)
      => /\ BestOf(cResult) = [root |-> NOTE_NAMES[r + 1], quality |-> "major"]
         /\ ValGreaterEq(cResult.chord.confidence, Rat(9, 10))

C9_Witness ==
  /\ cChroma = TemplateAt("major", 7)
  /\ cResult # NotRun
  /\ BestOf(cResult) = [root |-> <<"G">>, quality |-> "major"]

\* C10 as stated: for any non-zero chroma vector and any positive factor,
\* the best chord of the scaled vector is the best chord of the vector.
C10_ScalingKeepsBest ==
  (cResult # NotRun /\ totalEnergy(cChroma) > 0)
    => BestOf(cScaled.result) = BestOf(cResult)

\* C10 amended: the same, for a vector and a factor such that the vector and
\* the scaled vector are on the same side of the silence threshold 0.05.
C10_ScalingKeepsBestSameSide ==
  (/\ cResult # NotRun
   /\ totalEnergy(cChroma) > 0
   /\ EnergyBelow(cChroma, 5)
        = EnergyBelow(ScaleChroma(cChroma, cScaled.a, cScaled.b), 5))
    => BestOf(cScaled.result) = BestOf(cResult)

C10_Witness ==
  /\ cResult # NotRun
  /\ cScaled.a = 3
  /\ cScaled.b = 2
  /\ cChroma = [v |-> SmallTriad(7, 2, 1), den |-> 10]
  /\ BestOf(cResult) = [root |-> <<"G">>, quality |-> "major"]
  /\ BestOf(cScaled.result) = BestOf(cResult)

\* C11: for every vector that is all zero or whose total energy is below the
\* estimator's silence threshold (0.01 for the key estimator, 0.05 for the
\* chord estimator), the key estimator returns null and the chord estimator
\* returns no chord and no alternatives.
C11_SilenceGivesEmptyResults ==
  /\ (kResult # NotRun /\ EnergyBelow(kChroma, 1)) => kResult = NULL
  /\ (cResult # NotRun /\ EnergyBelow(cChroma, 5))
       => /\ cResult.chord = NULL
          /\ cResult.alternatives = <<>>

C11_Witness ==
  /\ kChroma = [v |-> SmallTriad(0, 1, 1), den |-> 1000]
  /\ cChroma = kChroma
  /\ kResult = NULL
  /\ cResult # NotRun
  /\ cResult.chord = NULL
  /\ cResult.alternatives = <<>>

\* the chords the numerals of the mode's progressions resolve to in a key
ProgressionChords(keyRoot, mode) ==
  UNION {{numeralToChord(COMMON_PROGRESSIONS[mode][p][i], keyRoot, mode) :
            i \in 1..Len(COMMON_PROGRESSIONS[mode][p])} :
           p \in 1..Len(COMMON_PROGRESSIONS[mode])}

\* C12: when the current chord is not the resolved chord of any degree of any
\* progression of the key's mode, the prediction list is empty.
C12_OutsideChordGivesNothing ==
  (pResult # NotRun
   /\ pResult.chord \notin ProgressionChords(pResult.keyRoot, pResult.mode))
    => pResult.result = <<>>

\* the bare triad of a quality with an extension
BareTriad == [dom7 |-> "major", maj7 |-> "major", min7 |-> "minor"]

\* C13: for every key and mode, a current label with an extension (7, maj7,
\* m7) yields the same prediction list as its bare triad label.
C13_ExtensionSameAsTriad ==
  (pResult # NotRun
   /\ pResult.quality \in DOMAIN BareTriad
   /\ pResult.other = BareTriad[pResult.quality])
    => pResult.result = pResult.otherResult

\* the labels that follow the current chord, one for every place of the
\* progressions where the current chord fits, scanning the progressions in
\* table order and each progression left to right
Followers(currentChord, keyRoot, mode) ==
  LET fits == SelectSeq(ScanFrom(COMMON_PROGRESSIONS[mode], 1),
                        LAMBDA step : ChordFits(numeralToChord(step.numeral, keyRoot, mode),
                                                currentChord))
  IN [k \in 1..Len(fits) |-> numeralToChord(fits[k].nextNumeral, keyRoot, mode)]

\* index of the first occurrence of x in the sequence f
FirstIndex(f, x) == CHOOSE k \in 1..Len(f) : f[k] = x /\ \A j \in 1..(k - 1) : f[j] # x

\* C14: for every current chord, key root and mode, the prediction list has
\* at most 3 labels, none repeated, in the order of their first occurrence
\* among the followers; it is the first three distinct followers.
C14_AtMostThreeDistinctInScanOrder ==
  pResult # NotRun
    => LET f == Followers(pResult.chord, pResult.keyRoot, pResult.mode)
           res == pResult.result
           distinct == Cardinality(SeqToSet(f))
       IN /\ Len(res) <= 3
          /\ Len(res) = (IF distinct < 3 THEN distinct ELSE 3)
          /\ \A i \in 1..Len(res), j \in 1..Len(res) : i # j => res[i] # res[j]
          /\ SeqToSet(res) \subseteq SeqToSet(f)
          /\ \A i \in 1..Len(res), j \in 1..Len(res) :
               i < j => FirstIndex(f, res[i]) < FirstIndex(f, res[j])
          /\ \A x \in SeqToSet(f) \ SeqToSet(res) :
               \A i \in 1..Len(res) : FirstIndex(f, res[i]) < FirstIndex(f, x)

C14_Witness ==
  /\ pResult # NotRun
  /\ pResult.chord = <<"G">>
  /\ pResult.keyRoot = <<"C">>
  /\ pResult.mode = "major"
  /\ Followers(pResult.chord, pResult.keyRoot, pResult.mode)
       = << <<"C">>, <<"A","m">>, <<"C">> >>
  /\ pResult.result = << <<"C">>, <<"A","m">> >>

\* C15: when the detected chords are any rearrangement of a catalogue
\* entry's progression, every distinct chord of the entry is matched (overlap
\* score 1.0) and the combined score is at least the default minimum 0.3.
C15_ShuffledKeepsOverlap ==
  sCall # NotRun
    => /\ sCall.counts[2] = sCall.counts[4]
       /\ ScoreAtLeast(sCall.result.score, DefaultOptions.minScore.num,
                       DefaultOptions.minScore.den)

C15_Witness ==
  /\ sCall # NotRun
  /\ SONG_DATABASE[sCall.song].id = "someone-like-you"
  /\ sCall.detected = << <<"D">>, <<"F","#","m">>, <<"E">>, <<"A">> >>
  /\ sCall.counts[1] < sCall.counts[3]
  /\ sCall.counts[2] = 4

\* the sharp spelling of a root
SharpOf(root) ==
  IF \E i \in 1..Len(enharmonicMap) : enharmonicMap[i].flat = root
  THEN enharmonicMap[CHOOSE i \in 1..Len(enharmonicMap) : enharmonicMap[i].flat = root].sharp
  ELSE root

\* the bare triad suffix of a suffix: maj7 and 7 removed, m7 -> m,
\* dim7 -> dim, sus2 and sus4 removed
TriadSuffix(suffix) ==
  CASE suffix = <<"m","a","j","7">> -> <<>>
    [] suffix = <<"7">> -> <<>>
    [] suffix = <<"m","7">> -> <<"m">>
    [] suffix = <<"d","i","m","7">> -> <<"d","i","m">>
    [] suffix = <<"s","u","s","2">> -> <<>>
    [] suffix = <<"s","u","s","4">> -> <<>>
    [] OTHER -> suffix

\* C16: normalization spells every flat root as its sharp and reduces every
\* extension to the bare triad, so a label matches its normalized form (Cmaj7
\* matches C, Dm7 matches Dm, Db matches C#); and normalizing twice a label
\* that formatChordName produces gives the same as normalizing it once.
C16_NormalizationToSharpTriad ==
  nCall # NotRun
    => /\ nCall.once = SharpOf(nCall.root) \o TriadSuffix(nCall.suffix)
       /\ nCall.matchesOnce
       /\ (\E r \in SeqToSet(NOTE_NAMES), q \in SeqToSet(ChordQuality) :
             nCall.label = formatChordName(r, q))
            => nCall.twice = nCall.once

C16_Witness ==
  /\ nCall # NotRun
  /\ nCall.label = <<"D","b","m","7">>
  /\ nCall.once = <<"C","#","m">>
  /\ nCall.twice = <<"C","#","m">>
  /\ nCall.matchesOnce

\* the same root: the key's name without its first accidental
KeyRootOf(key) == ReplaceFirst(ReplaceFirst(key, <<"#">>, <<>>), <<"b">>, <<>>)

\* C17: the list findMatchingSongs returns for a chord list and options is
\* the list it returns for them without a detected key, whatever the key and
\* the mode handed to it
C17_KeyAndModeDoNotChangeResult ==
  fCall # NotRun => fCall.matches = fCall.noKey

\* a call with a key and a mode that returned an entry in another key and an
\* entry in another mode
C17_Witness ==
  /\ fCall # NotRun
  /\ fCall.key # <<>>
  /\ fCall.mode # ""
  /\ \E i \in 1..Len(fCall.matches) :
       KeyRootOf(fCall.matches[i].song.key) # KeyRootOf(fCall.key)
  /\ \E i \in 1..Len(fCall.matches) : fCall.matches[i].song.mode # fCall.mode

\* the place of a catalogue entry in a returned list, 0 when it is not there
PlaceOf(matches, song) ==
  IF \E i \in 1..Len(matches) : matches[i].song.id = song.id
  THEN CHOOSE i \in 1..Len(matches) : matches[i].song.id = song.id
  ELSE 0

\* the list is short enough, ordered, and made of entries that scored enough
BoundedSortedFiltered(matches, options, scores) ==
  /\ Len(matches) <= options.maxResults
  /\ \A i \in 1..(Len(matches) - 1) :
       ~ScoreGreater(matches[i + 1].score, matches[i].score)
  /\ \A i \in 1..Len(matches) :
       /\ ScoreAtLeast(matches[i].score, options.minScore.num, options.minScore.den)
       /\ \E s \in 1..Len(SONG_DATABASE) :
            /\ matches[i].song = SONG_DATABASE[s]
            /\ matches[i].score = scores[s]

\* C18 as stated: every list findMatchingSongs returns has at most maxResults
\* entries, in non-increasing order of score, each with a score of at least
\* minScore, and leaves out no catalogue entry that scores higher than an
\* entry of the list
C18_BoundedSortedFilteredComplete ==
  fCall # NotRun =>
    /\ BoundedSortedFiltered(fCall.matches, fCall.options, fCall.scores)
    /\ \A s \in 1..Len(SONG_DATABASE) :
         (\E i \in 1..Len(fCall.matches) :
            ScoreGreater(fCall.scores[s], fCall.matches[i].score))
           => PlaceOf(fCall.matches, SONG_DATABASE[s]) # 0

\* C18, amended: the list leaves out no catalogue entry of the difficulty
\* asked for (any entry when none is asked for) that scores higher than an
\* entry of the list
C18_CompleteAmongDifficulty ==
  fCall # NotRun =>
    /\ BoundedSortedFiltered(fCall.matches, fCall.options, fCall.scores)
    /\ \A i \in 1..Len(fCall.matches) :
         fCall.options.difficulty \in {"", fCall.matches[i].song.difficulty}
    /\ \A s \in 1..Len(SONG_DATABASE) :
         /\ fCall.options.difficulty \in {"", SONG_DATABASE[s].difficulty}
         /\ \E i \in 1..Len(fCall.matches) :
              ScoreGreater(fCall.scores[s], fCall.matches[i].score)
         => PlaceOf(fCall.matches, SONG_DATABASE[s]) # 0

\* a full list cut at maxResults: an entry that scored at least minScore was
\* left out, and the scores in the list are not all equal
C18_Witness ==
  /\ fCall # NotRun
  /\ Len(fCall.matches) = fCall.options.maxResults
  /\ ScoreGreater(fCall.matches[1].score, fCall.matches[Len(fCall.matches)].score)
  /\ \E s \in 1..Len(SONG_DATABASE) :
       /\ fCall.options.difficulty \in {"", SONG_DATABASE[s].difficulty}
       /\ ScoreAtLeast(fCall.scores[s], fCall.options.minScore.num,
                       fCall.options.minScore.den)
       /\ PlaceOf(fCall.matches, SONG_DATABASE[s]) = 0

\* the tier of a score: high from 0.7, medium from 0.5 to below 0.7, low below
TierOf(score) ==
  IF 10 * score.num >= 7 * score.den THEN "high"
  ELSE IF 10 * score.num >= 5 * score.den THEN "medium"
  ELSE "low"

\* C19: every SongMatch that suggestSongsFromChords returns carries the tier
\* of its score, and the message says what the chords sound like exactly when
\* there is a first match and its tier is high
C19_TierFollowsScoreAndMessageFollowsTier ==
  MatchRan =>
    /\ \A i \in 1..Len(mResult.result.matches) :
         mResult.result.matches[i].confidence = TierOf(mResult.result.matches[i].score)
    /\ mResult.result.message = "This sounds like"
         <=> /\ Len(mResult.result.matches) > 0
             /\ TierOf(mResult.result.matches[1].score) = "high"

\* a run that returned a match of each tier, the first of them high, with
\* the message that names the song
C19_Witness ==
  /\ MatchRan
  /\ Len(mResult.result.matches) > 0
  /\ mResult.result.matches[1].confidence = "high"
  /\ mResult.result.message = "This sounds like"
  /\ \E i \in 1..Len(mResult.result.matches) :
       mResult.result.matches[i].confidence = "medium"
  /\ \E i \in 1..Len(mResult.result.matches) :
       mResult.result.matches[i].confidence = "low"

\* C20: an entry with an empty chord list is in no returned list, and the
\* list is the one returned for the catalogue without that entry, so every
\* other entry has the score and the place it has without the entry
C20_EmptyEntrySkipped ==
  gCall # NotRun =>
    /\ PlaceOf(gCall.matches, EmptyEntry) = 0
    /\ gCall.matches = gCall.without

C22_RestartResetsSessionState ==
  [][(~hListening /\ hListening')
       => /\ hAccumulatedChroma' = {}
          /\ hKeyAccumulator' = {}
          /\ hSampleCount' = 0
          /\ hKeySampleCount' = 0
          /\ hHistory' = <<>>
          /\ hLastChord' = <<>>
          /\ hLastChordTime' = 0]_vars

\* the catalogue index of a song
IndexInCatalogue(song) == CHOOSE i \in 1..Len(SONG_DATABASE) : SONG_DATABASE[i].id = song.id

\* C23: findSimilarSongs never returns the song asked about, returns at most
\* maxResults songs and none for an unknown id, and returns the other entries
\* with the highest score + key bonus + mode bonus, in non-increasing order of
\* it
C23_SimilarSongsBoundedOrderedWithoutItself ==
  simCall # NotRun =>
    /\ \A k \in 1..Len(simCall.result) : simCall.result[k].id # simCall.songId
    /\ Len(simCall.result) <= simCall.maxResults
    /\ simCall.songId \notin {SONG_DATABASE[i].id : i \in 1..Len(SONG_DATABASE)}
         => simCall.result = <<>>
    /\ simCall.songId \in {SONG_DATABASE[i].id : i \in 1..Len(SONG_DATABASE)}
         => /\ Len(simCall.result)
                 = (IF simCall.maxResults < Len(SONG_DATABASE) - 1
                    THEN simCall.maxResults ELSE Len(SONG_DATABASE) - 1)
            /\ \A k \in 1..(Len(simCall.result) - 1) :
                 ~ScoreGreater(simCall.scored[IndexInCatalogue(simCall.result[k + 1])],
                               simCall.scored[IndexInCatalogue(simCall.result[k])])
            /\ \A i \in 1..Len(SONG_DATABASE) :
                 (/\ SONG_DATABASE[i].id # simCall.songId
                  /\ \E k \in 1..Len(simCall.result) :
                       ScoreGreater(simCall.scored[i],
                                    simCall.scored[IndexInCatalogue(simCall.result[k])]))
                   => \E k \in 1..Len(simCall.result) :
                        simCall.result[k] = SONG_DATABASE[i]

\* a call for a catalogue entry that returned songs of different scores and
\* left out another entry, whose score the bonuses lifted above 0
C23_Witness ==
  /\ simCall # NotRun
  /\ Len(simCall.result) = simCall.maxResults
  /\ Len(simCall.result) > 1
  /\ ScoreGreater(simCall.scored[IndexInCatalogue(simCall.result[1])],
                  simCall.scored[IndexInCatalogue(simCall.result[Len(simCall.result)])])
  /\ \E i \in 1..Len(SONG_DATABASE) :
       /\ SONG_DATABASE[i].id # simCall.songId
       /\ \A k \in 1..Len(simCall.result) : simCall.result[k] # SONG_DATABASE[i]
       /\ simCall.scored[i].num > 0

\* C24: while the detector is monitoring, isActive goes from false to true
\* only on a sample that ends at least activityMinDuration of samples above
\* the threshold, and from true to false only on a sample that ends at least
\* silenceTimeout of samples not above it
C24_ActivityNeedsSustainedVolume ==
  [][(aMonitoring /\ aMonitoring')
       => /\ (~aActivity.isActive /\ aActivity'.isActive)
               => /\ aLoudSince' # 0
                  /\ aNow' - aLoudSince' >= activityMinDuration
          /\ (aActivity.isActive /\ ~aActivity'.isActive)
               => /\ aQuietSince' # 0
                  /\ aNow' - aQuietSince' >= silenceTimeout]_vars

\* the most positions of the window that match the entry, over the offsets at
\* which the whole window lies within the entry; 0 when there is no such offset
BestWindowCount(detected, entry) ==
  MaxOf({0} \cup
        {Cardinality({j \in 1..Len(detected) : chordsMatch(detected[j], entry[i + j])}) :
           i \in 0..(Len(entry) - Len(detected))})

\* the distinct normalized chords of an entry
DistinctNormalized(entry) == {normalizeChord(entry[j]) : j \in 1..Len(entry)}

\* the distinct normalized chords of the entry that match some detected chord
OverlapOf(detected, entry) ==
  {c \in DistinctNormalized(entry) :
     \E j \in 1..Len(detected) : chordsMatch(detected[j], c)}

\* C25: for a non-empty window and entry the combined score is
\* min(1, 0.7 * S + 0.3 * O), S being the best count of matching positions
\* over the offsets divided by the window length and O the share of the
\* entry's distinct normalized chords that match a detected chord; the score
\* lies between 0 and 1
C25_ScoreIsWeightedSequenceAndOverlap ==
  sCall # NotRun =>
    LET detected == sCall.detected
        entry == SONG_DATABASE[sCall.song].chords
        w == Len(detected)
        u == Cardinality(DistinctNormalized(entry))
        weighted == 7 * BestWindowCount(detected, entry) * u
                      + 3 * Cardinality(OverlapOf(detected, entry)) * w
        score == sCall.result.score
    IN /\ score.den > 0
       /\ score.num >= 0
       /\ score.num <= score.den
       /\ IF weighted > 10 * w * u
          THEN score.num = score.den
          ELSE score.num * (10 * w * u) = weighted * score.den

\* a window shorter than the entry whose best offset is not the first, with
\* seventh chords heard, and a score strictly between 0 and 1
C25_Witness ==
  /\ sCall # NotRun
  /\ Len(sCall.detected) < Len(SONG_DATABASE[sCall.song].chords)
  /\ Len(sCall.detected) > 1
  /\ sCall.detected[1][Len(sCall.detected[1])] = "7"
  /\ Cardinality({j \in 1..Len(sCall.detected) :
                    chordsMatch(sCall.detected[j], SONG_DATABASE[sCall.song].chords[j])})
       < BestWindowCount(sCall.detected, SONG_DATABASE[sCall.song].chords)
  /\ sCall.result.score.num > 0
  /\ sCall.result.score.num < sCall.result.score.den

\* the (root, quality) candidates the loops score for the vector of cChroma
ScoredCandidates ==
  {ChordScored(normalizeChroma(cChroma).v, COMMON_QUALITIES, c) :
     c \in 1..(12 * Len(COMMON_QUALITIES))}

\* the chord and the alternatives of a result
Returned(result) == {result.chord} \cup SeqToSet(result.alternatives)

\* C26: in a result with a chord, the chord has the highest similarity of all
\* scored candidates, every candidate returned has a similarity above 0.4,
\* there are at most 3 alternatives, in non-increasing order of similarity and
\* none above the chord, and no candidate above 0.4 that is left out has a
\* higher similarity than a returned alternative
C26_BestAndAlternativesAreTheTopCandidates ==
  (cResult # NotRun /\ cResult.chord # NULL) =>
    \A scored \in {ScoredCandidates} :
      /\ cResult.chord \in scored
      /\ \A cand \in scored : ~ValGreater(cand.confidence, cResult.chord.confidence)
      /\ \A r \in Returned(cResult) :
           /\ r \in scored
           /\ ValGreater(r.confidence, Rat(4, 10))
      /\ Len(cResult.alternatives) <= 3
      /\ \A i \in 1..Len(cResult.alternatives) :
           /\ ~ValGreater(cResult.alternatives[i].confidence, cResult.chord.confidence)
           /\ i > 1 => ~ValGreater(cResult.alternatives[i].confidence,
                                   cResult.alternatives[i - 1].confidence)
      /\ \A cand \in scored \ Returned(cResult) :
           ValGreater(cand.confidence, Rat(4, 10))
             => \A i \in 1..Len(cResult.alternatives) :
                  ~ValGreater(cand.confidence, cResult.alternatives[i].confidence)

\* a result with three alternatives of falling similarity, below the chord's,
\* and a candidate above 0.4 that was left out
C26_Witness ==
  /\ cResult # NotRun
  /\ cResult.chord # NULL
  /\ Len(cResult.alternatives) = 3
  /\ ValGreater(cResult.chord.confidence, cResult.alternatives[1].confidence)
  /\ ValGreater(cResult.alternatives[1].confidence, cResult.alternatives[3].confidence)
  /\ \E cand \in ScoredCandidates \ Returned(cResult) :
       ValGreater(cand.confidence, Rat(4, 10))

\* the correlations of the 24 candidates with the chroma handed to the detector
KeyCorrelations ==
  [c \in 1..24 |-> KeyCorrelation(normalizeChroma(kChroma).v, c)]

\* the first candidate, in the order of the two loops, that none exceeds
FirstHighest(corr) ==
  CHOOSE b \in 1..24 :
    /\ \A c \in 1..24 : ~ValGreater(corr[c], corr[b])
    /\ \A c \in 1..(b - 1) : ValGreater(corr[b], corr[c])

\* C27: when several of the 24 key candidates share the highest correlation,
\* the detector returns the first of them in the order major roots 0..11,
\* then minor roots 0..11; an alternate that is emitted is another (root,
\* mode) pair, its correlation is the highest among the remaining 23, and its
\* confidence exceeds 0.3.
C27_FirstOfTiedKeysAndBestOfTheRest ==
  (kResult # NotRun /\ kResult # NULL) =>
    \A corr \in {KeyCorrelations} :
      \A b \in {FirstHighest(corr)} :
        /\ kResult.key = NOTE_NAMES[KeyCandidates[b].key + 1]
        /\ kResult.mode = KeyCandidates[b].mode
        /\ kResult.confidence = corr[b]
        /\ kResult.alternateKey # NULL =>
             /\ <<kResult.alternateKey.key, kResult.alternateKey.mode>>
                  # <<kResult.key, kResult.mode>>
             /\ \E s \in (1..24) \ {b} :
                  /\ kResult.alternateKey.key = NOTE_NAMES[KeyCandidates[s].key + 1]
                  /\ kResult.alternateKey.mode = KeyCandidates[s].mode
                  /\ kResult.alternateKey.confidence = corr[s]
                  /\ \A c \in (1..24) \ {b} : ~ValGreater(corr[c], corr[s])
             /\ ConfidenceAbove(kResult.alternateKey.confidence, 3, 10, TRUE)

\* a chroma that is not flat for which two candidates share the highest
\* correlation, with a result that carries an alternate
C27_Witness ==
  /\ kResult # NotRun
  /\ kResult # NULL
  /\ kResult.alternateKey # NULL
  /\ \E i, j \in 1..12 : kChroma.v[i] # kChroma.v[j]
  /\ \A corr \in {KeyCorrelations} :
       \E b, c \in 1..24 :
         /\ b < c
         /\ kResult.key = NOTE_NAMES[KeyCandidates[b].key + 1]
         /\ kResult.mode = KeyCandidates[b].mode
         /\ ~ValGreater(corr[b], corr[c])
         /\ ~ValGreater(corr[c], corr[b])
         /\ \A e \in 1..24 : ~ValGreater(corr[e], corr[b])

\* the length of the longest progression of the catalogue
LongestProgression == MaxOf({Len(SONG_DATABASE[i].chords) : i \in 1..Len(SONG_DATABASE)})

\* C28: whenever the detected window is longer than the entry's progression
\* the sequence part of the score is 0 and the combined score is at most 0.3,
\* so its tier is neither medium nor high; the longest progression of the
\* catalogue has 9 chords, so a window of 10 or more chords scores no entry
\* medium or high.
C28_LongWindowScoresLow ==
  sCall # NotRun =>
    /\ Len(sCall.detected) > Len(SONG_DATABASE[sCall.song].chords)
         => /\ sCall.result.matchedCount = 0
            /\ 10 * sCall.result.score.num <= 3 * sCall.result.score.den
            /\ TierOf(sCall.result.score) = "low"
    /\ LongestProgression = 9
    /\ Len(sCall.detected) >= 10 => TierOf(sCall.result.score) = "low"

\* a window of ten chords scored against an entry of which it holds every
\* chord: the score is exactly 0.3
C28_Witness ==
  /\ sCall # NotRun
  /\ Len(sCall.detected) >= 10
  /\ Len(sCall.detected) > Len(SONG_DATABASE[sCall.song].chords)
  /\ 10 * sCall.result.score.num = 3 * sCall.result.score.den

\* C29: every entry appended to the chord history on an accepted label change
\* carries the chord that was the accepted current chord just before the
\* change, the time at which that chord was accepted and the time it was
\* held; once two label changes have been accepted in a session the history
\* is not empty
C29_HistoryRecordsTheChordLeft ==
  [][/\ Len(hLog') = Len(hLog) + 1
          => /\ hLog'[Len(hLog')].chord = hLastChord
             /\ hLog'[Len(hLog')].timestamp = hLastChordTime
             /\ hLog'[Len(hLog')].duration = hNow' - hLastChordTime
     /\ hAccepted' >= 2 => hHistory' # <<>>]_vars

\* C30: whenever detectChordFromChroma returns a chord for a chroma,
\* detectChordWithAlternatives returns a chord with the same root, quality
\* and confidence for it; and detectChordWithAlternatives returns a chord
\* where detectChordFromChroma returns null only when the highest similarity
\* is above 0.4 and at most 0.5
C30_BothDetectorsNameTheSameChord ==
  cResult # NotRun =>
    /\ cSingle # NULL
         => /\ cResult.chord # NULL
            /\ cResult.chord.root = cSingle.root
            /\ cResult.chord.quality = cSingle.quality
            /\ cResult.chord.confidence = cSingle.confidence
    /\ (cResult.chord # NULL /\ cSingle = NULL)
         => \A scored \in {ScoredCandidates} :
              /\ \E cand \in scored : ValGreater(cand.confidence, Rat(4, 10))
              /\ \A cand \in scored : ~ValGreater(cand.confidence, Rat(5, 10))

\* both detectors answer for a chroma that two candidates fit equally well
\* and better than 0.5
C30_Witness ==
  /\ cResult # NotRun
  /\ cSingle # NULL
  /\ cResult.chord # NULL
  /\ Len(cResult.alternatives) > 0
  /\ ~ValGreater(cResult.chord.confidence, cResult.alternatives[1].confidence)
  /\ ~ValGreater(cResult.alternatives[1].confidence, cResult.chord.confidence)

====
